---- MODULE Spec2Model ----
(***************************************************************************)
(* Identity gateway in front of a Keycloak realm: bearer-token             *)
(* verification (app/auth.py), the realm-admin gate, and the admin         *)
(* orchestration of POST /users (app/routes/users.py on top of             *)
(* app/keycloak_admin.py).  Each request is one sequential control flow;   *)
(* its suspension points are the outbound HTTP calls, so every action      *)
(* below is one handler segment ending in (at most) one remote call.       *)
(***************************************************************************)
EXTENDS Integers, Sequences, FiniteSets, TLC

(***************************************************************************)
(* Bounds of the model                                                     *)
(***************************************************************************)
\* longest realm_access.roles list carried by a token payload
MaxTokenRoles == 2

(***************************************************************************)
(* Generic helpers                                                         *)
(***************************************************************************)
Range(s) == {s[i] : i \in 1..Len(s)}

SeqsUpTo(S, n) == UNION {[1..k -> S] : k \in 0..n}

Count(s, x) == Cardinality({i \in 1..Len(s) : s[i] = x})

(***************************************************************************)
(* Tokens.  A JWT is abstracted to what python-jose reads from it: whether *)
(* its header segment parses, the header's kid and alg, the algorithm and  *)
(* key its signature was really produced with, whether the payload is a    *)
(* JSON object, its exp claim and its realm_access claim.                  *)
(***************************************************************************)
Kids == {"k1", "k2"}

NoKid == "absent"

Algs == {"RS256", "RS512", "HS256", "none"}

\* algorithms for which an RSA JWK verifies a signature
RsaAlgs == {"RS256", "RS512"}

\* settings.jwt_algorithm
jwt_algorithm == "RS256"

\* the clock read by jwt.decode when it validates exp
Now == 1

ExpValues == 0..(Now + 1)

Sigs == [alg : {"RS256", "RS512", "HS256"}, key : Kids] \cup {[alg |-> "none", key |-> "k1"]}

TokenRoleNames == {"realm-admin", "Realm-Admin", "realm-admin-x", "viewer"}

\* realm_access claim: ra says whether the key is absent, null or an object;
\* roles says the same of the object's "roles" key; list is the role list.
RealmShapes ==
    {[ra |-> "absent", roles |-> "absent", list |-> <<>>],
     [ra |-> "null", roles |-> "absent", list |-> <<>>],
     [ra |-> "obj", roles |-> "absent", list |-> <<>>],
     [ra |-> "obj", roles |-> "null", list |-> <<>>]}
    \cup {[ra |-> "obj", roles |-> "list", list |-> l] : l \in SeqsUpTo(TokenRoleNames, MaxTokenRoles)}

AdminRealm == [ra |-> "obj", roles |-> "list", list |-> <<"realm-admin">>]

UnparsableToken ==
    [hdr |-> "malformed", kid |-> NoKid, alg |-> "none", sig |-> [alg |-> "none", key |-> "k1"],
     body |-> "ok", expKind |-> "absent", exp |-> 0, realm |-> AdminRealm]

\* every shape of header, signature, payload and expiry, all claiming realm-admin
CryptoTokens ==
    {[hdr |-> "ok", kid |-> k, alg |-> a, sig |-> s, body |-> b, expKind |-> ek, exp |-> e, realm |-> AdminRealm] :
        k \in Kids \cup {NoKid}, a \in Algs, s \in Sigs, b \in {"ok", "malformed"},
        ek \in {"int"}, e \in ExpValues}
    \cup
    {[hdr |-> "ok", kid |-> k, alg |-> a, sig |-> s, body |-> "ok", expKind |-> ek, exp |-> 0, realm |-> AdminRealm] :
        k \in Kids \cup {NoKid}, a \in Algs, s \in Sigs, ek \in {"absent", "nonint"}}
    \cup {UnparsableToken}

\* tokens the authority issued (signed RS256 with its key k1, not expired), every claim shape
IssuedTokens ==
    {[hdr |-> "ok", kid |-> "k1", alg |-> "RS256", sig |-> [alg |-> "RS256", key |-> "k1"],
      body |-> "ok", expKind |-> "int", exp |-> Now + 1, realm |-> r] : r \in RealmShapes}

Tokens == CryptoTokens \cup IssuedTokens

(***************************************************************************)
(* Authorization header: absent (None), or a string.  A string is a        *)
(* sequence of chunks: "Bearer " is that literal, "T" is the text of the   *)
(* request's JWT, "x" is any other text.                                   *)
(***************************************************************************)
Chunks == {"Bearer ", "T", "x"}

NoHeader == [present |-> FALSE, text |-> <<>>]

HeaderOf(text) == [present |-> TRUE, text |-> text]

\* str.startswith("Bearer ")
StartsWithBearer(text) == Len(text) > 0 /\ text[1] = "Bearer "

\* str.replace("Bearer ", ""): every occurrence is removed
RECURSIVE ReplaceBearer(_)
ReplaceBearer(text) ==
    IF text = <<>> THEN <<>>
    ELSE IF Head(text) = "Bearer " THEN ReplaceBearer(Tail(text))
    ELSE <<Head(text)>> \o ReplaceBearer(Tail(text))

\* the JWT a token string denotes: only the string that is exactly the JWT's text parses
ParseToken(str, t) == IF str = <<"T">> THEN t ELSE UnparsableToken

(***************************************************************************)
(* decode_token (auth.py:75-124) over python-jose                          *)
(***************************************************************************)
NoClaims == [ra |-> "absent", roles |-> "absent", list |-> <<>>]

AuthResult(status, kind, fetches, algUsed, claims) ==
    [status |-> status, kind |-> kind, fetches |-> fetches, algUsed |-> algUsed, claims |-> claims]

NoAuth == AuthResult(0, "none", 0, "", NoClaims)

\* a signature verifies under algorithm alg and the JWK with key id kid
SigValid(alg, kid, sig) == alg \in RsaAlgs /\ sig.alg = alg /\ sig.key = kid

\* jwt.decode(token, rsa_key, algorithms=..., options={"verify_aud": False}):
\* the kind of JWTError raised, or "ok"
JwtDecodeNoAllowList(t, kid, algorithms) ==
    IF ~SigValid(t.alg, kid, t.sig) THEN "InvalidSignature"
    ELSE IF t.body # "ok" THEN "MalformedClaims"
    ELSE IF t.expKind = "nonint" THEN "MalformedClaims"
    ELSE IF t.expKind = "int" /\ t.exp < Now THEN "Expired"
    ELSE "ok"

JwtDecodeNoExpiry(t, kid, algorithms) ==
    IF t.alg \notin algorithms THEN "AlgNotAllowed"
    ELSE IF ~SigValid(t.alg, kid, t.sig) THEN "InvalidSignature"
    ELSE IF t.body # "ok" THEN "MalformedClaims"
    ELSE IF t.expKind = "nonint" THEN "MalformedClaims"
    ELSE "ok"

JwtDecode(t, kid, algorithms) ==
    IF t.alg \notin algorithms THEN "AlgNotAllowed"
    ELSE IF ~SigValid(t.alg, kid, t.sig) THEN "InvalidSignature"
    ELSE IF t.body # "ok" THEN "MalformedClaims"
    ELSE IF t.expKind = "nonint" THEN "MalformedClaims"
    ELSE IF t.expKind = "int" /\ t.exp < Now THEN "Expired"
    ELSE "ok"

\* the algorithm the signature check ran under ("" when it was not reached)
AlgUsed(t, algorithms) == IF t.alg \in algorithms THEN t.alg ELSE ""

DecodeTokenRefetch(str, t, keys, fetchOk) ==
    LET tok == ParseToken(str, t) IN
    IF ~fetchOk THEN AuthResult(500, "HTTPError", 1, "", NoClaims)
    ELSE IF tok.hdr # "ok" THEN AuthResult(401, "MalformedHeader", 1, "", NoClaims)
    ELSE IF keys # {} /\ tok.kid = NoKid THEN AuthResult(500, "KeyError", 1, "", NoClaims)
    ELSE IF tok.kid \notin keys THEN AuthResult(401, "UnknownSigningKey", 2, "", NoClaims)
    ELSE LET r == JwtDecode(tok, tok.kid, {jwt_algorithm}) IN
         IF r = "ok" THEN AuthResult(200, "ok", 1, AlgUsed(tok, {jwt_algorithm}), tok.realm)
         ELSE AuthResult(401, r, 1, AlgUsed(tok, {jwt_algorithm}), NoClaims)

DecodeToken(str, t, keys, fetchOk) ==
    LET tok == ParseToken(str, t) IN
    \* get_jwks() runs first; an httpx error is no JWTError and escapes
    IF ~fetchOk THEN AuthResult(500, "HTTPError", 1, "", NoClaims)
    \* jwt.get_unverified_header raises JWTError
    ELSE IF tok.hdr # "ok" THEN AuthResult(401, "MalformedHeader", 1, "", NoClaims)
    \* key["kid"] == unverified_header["kid"] on the first key: KeyError escapes
    ELSE IF keys # {} /\ tok.kid = NoKid THEN AuthResult(500, "KeyError", 1, "", NoClaims)
    \* if not rsa_key
    ELSE IF tok.kid \notin keys THEN AuthResult(401, "UnknownSigningKey", 1, "", NoClaims)
    ELSE LET r == JwtDecode(tok, tok.kid, {jwt_algorithm}) IN
         IF r = "ok" THEN AuthResult(200, "ok", 1, AlgUsed(tok, {jwt_algorithm}), tok.realm)
         ELSE AuthResult(401, r, 1, AlgUsed(tok, {jwt_algorithm}), NoClaims)

(***************************************************************************)
(* verify_bearer_token (auth.py:126-143)                                   *)
(***************************************************************************)
VerifyBearerToken(h, t, keys, fetchOk) ==
    IF ~h.present \/ h.text = <<>> THEN AuthResult(401, "MissingToken", 0, "", NoClaims)
    ELSE IF ~StartsWithBearer(h.text) THEN AuthResult(401, "BadScheme", 0, "", NoClaims)
    ELSE DecodeToken(ReplaceBearer(h.text), t, keys, fetchOk)

(***************************************************************************)
(* is_superadmin / require_superadmin (auth.py:145-165)                    *)
(***************************************************************************)
\* dict.get(key, default) returns the default only when the key is absent
RolesOf(claims) ==
    IF claims.ra = "null" THEN [raised |-> "AttributeError", list |-> <<>>]
    ELSE IF claims.ra = "absent" \/ claims.roles = "absent" THEN [raised |-> "none", list |-> <<>>]
    ELSE IF claims.roles = "null" THEN [raised |-> "TypeError", list |-> <<>>]
    ELSE [raised |-> "none", list |-> claims.list]

\* a faulty variant of InList: names compared by their first eleven characters
RoleNameMatches(x, role) == role = x \/ (x = "realm-admin" /\ role = "realm-admin-x")

InListPrefix(x, list) == \E i \in 1..Len(list) : RoleNameMatches(x, list[i])

\* x in list: some element equals x
InList(x, list) == \E i \in 1..Len(list) : list[i] = x

\* "yes", "no", or the exception that escapes
IsSuperadmin(claims) ==
    LET r == RolesOf(claims) IN
    IF r.raised # "none" THEN r.raised
    ELSE IF InList("realm-admin", r.list) THEN "yes" ELSE "no"

\* the status require_superadmin ends the request with, 0 when it returns
RequireSuperadmin(claims) ==
    LET a == IsSuperadmin(claims) IN
    IF a = "yes" THEN 0 ELSE IF a = "no" THEN 403 ELSE 500

(***************************************************************************)
(* Routes (app/routes/*.py).  Every route below depends on                 *)
(* verify_bearer_token; the mutating ones call require_superadmin(token)   *)
(* as the first statement of the handler.                                  *)
(***************************************************************************)
ReadEndpoints ==
    {"list_users", "get_user", "get_user_roles", "get_user_groups",
     "list_roles", "list_groups", "get_current_user", "logout"}

MutatingEndpoints ==
    {"create_user", "update_user", "delete_user", "reset_password",
     "create_role", "delete_role", "assign_roles", "remove_roles",
     "create_group", "delete_group", "add_user_to_group", "remove_user_from_group"}

Endpoints == ReadEndpoints \cup MutatingEndpoints

\* the handler starts with require_superadmin(token)
Gated(e) == e \in MutatingEndpoints

\* the keycloak_admin functions a handler other than POST /users calls, in order
AdminCalls(e) ==
    CASE e = "list_users" -> <<"list_users">>
      [] e = "get_user" -> <<"get_user">>
      [] e = "update_user" -> <<"get_user", "update_user">>
      [] e = "delete_user" -> <<"delete_user">>
      [] e = "reset_password" -> <<"set_user_password">>
      [] e = "get_user_roles" -> <<"get_user_roles">>
      [] e = "get_user_groups" -> <<"get_user_groups">>
      [] e = "list_roles" -> <<"list_realm_roles">>
      [] e = "create_role" -> <<"create_realm_role">>
      [] e = "delete_role" -> <<"delete_realm_role">>
      [] e = "assign_roles" -> <<"assign_roles_to_user">>
      [] e = "remove_roles" -> <<"remove_roles_from_user">>
      [] e = "list_groups" -> <<"list_groups">>
      [] e = "create_group" -> <<"create_group">>
      [] e = "delete_group" -> <<"delete_group">>
      [] e = "add_user_to_group" -> <<"add_user_to_group">>
      [] e = "remove_user_from_group" -> <<"remove_user_from_group">>
      [] OTHER -> <<>>

\* the status of the HTTPException the handler's except clause raises
ErrorStatus(e) == IF e = "get_user" THEN 404 ELSE 500

\* the status of a normal return
SuccessStatus(e) ==
    IF e \in {"create_user", "create_role", "create_group"} THEN 201
    ELSE IF e \in {"delete_user", "delete_role", "delete_group"} THEN 204
    ELSE 200

\* where the handler body starts
BodyStart(e) ==
    IF e = "create_user" THEN "cu_token"
    ELSE IF AdminCalls(e) = <<>> THEN "return"
    ELSE "fn_token"

(***************************************************************************)
(* The realm held by the authority                                         *)
(***************************************************************************)
Alphabet == <<"a", "b", "c">>

Rank(ch) == CHOOSE i \in 1..Len(Alphabet) : Alphabet[i] = ch

Min(a, b) == IF a < b THEN a ELSE b

\* a sorts strictly before b
LexLess(a, b) ==
    \E k \in 1..(Min(Len(a), Len(b)) + 1) :
        /\ \A j \in 1..(k - 1) : a[j] = b[j]
        /\ \/ k > Len(a) /\ k <= Len(b)
           \/ k <= Len(a) /\ k <= Len(b) /\ Rank(a[k]) < Rank(b[k])

\* x occurs in s as a substring
Contains(s, x) ==
    \E off \in 0..(Len(s) - Len(x)) : \A j \in 1..Len(x) : s[off + j] = x[j]

\* the ids of set ids, ordered by username
RECURSIVE SortByUsername(_, _)
SortByUsername(us, ids) ==
    IF ids = {} THEN <<>>
    ELSE LET first == CHOOSE i \in ids : \A o \in ids \ {i} : LexLess(us[i].username, us[o].username)
         IN <<first>> \o SortByUsername(us, ids \ {first})

\* GET /admin/realms/{realm}/users?username=x: the users whose username contains x
SearchUsers(us, x) == SortByUsername(us, {i \in DOMAIN us : Contains(us[i].username, x)})

\* POST /admin/realms/{realm}/users answers 409 when the username or the email is taken
UserConflict(us, username, email) ==
    \E i \in DOMAIN us : us[i].username = username \/ us[i].email = email

\* the first name every create request carries
FirstName == "f0"

NewUser(username, email) ==
    [username |-> username, email |-> email, firstName |-> FirstName, password |-> "",
     roles |-> {}, groups |-> {}]

\* Optional[...] = None in UserUpdateRequest: the field is not provided
None == "None"

\* update_user (routes/users.py:265-273): a provided field replaces the one read
ApplyUpdate(current_user, user_update) ==
    [current_user EXCEPT
        !.email = IF user_update.email # None THEN user_update.email ELSE @,
        !.firstName = IF user_update.firstName # None THEN user_update.firstName ELSE @]

\* PUT /admin/realms/{realm}/users/{id}: another user holds the email
EmailConflict(us, id, email) == \E i \in DOMAIN us \ {id} : us[i].email = email

\* PUT /admin/realms/{realm}/users/{id} with a full representation: the profile
\* fields are replaced, credentials and mappings are no part of it
PutUser(us, id, user_data) ==
    [us EXCEPT ![id].email = user_data.email, ![id].firstName = user_data.firstName]

Extend(us, id, u) == [i \in DOMAIN us \cup {id} |-> IF i = id THEN u ELSE us[i]]

\* DELETE /admin/realms/{realm}/users/{id}
RemoveUser(us, id) == [i \in DOMAIN us \ {id} |-> us[i]]

\* DELETE /admin/realms/{realm}/roles/{name} also ends the role's mappings
DropRole(us, name) == [i \in DOMAIN us |-> [us[i] EXCEPT !.roles = @ \ {name}]]

\* DELETE /admin/realms/{realm}/groups/{id} also ends the group's memberships
DropGroup(us, gid) == [i \in DOMAIN us |-> [us[i] EXCEPT !.groups = @ \ {gid}]]

\* the id the authority gives the n-th group
NewGroupId(n) == "gid" \o ToString(n)

(***************************************************************************)
(* Requests                                                                *)
(***************************************************************************)
\* request flows in progress at once: one per inbound request
Procs == {"p1", "p2"}

\* the flow of the specifications that serve one request at a time
Solo == {"p1"}

\* the parameters of a request: the fields of the POST /users body, the user id
\* of the path, and the role name, group name or group id of the path or body
NoBody ==
    [username |-> <<>>, email |-> "", firstName |-> "", password |-> "", roles |-> <<>>, groups |-> <<>>,
     user_id |-> 0, name |-> ""]

NoReq == [header |-> NoHeader, token |-> UnparsableToken, endpoint |-> "logout", body |-> NoBody]

NoResp == [status |-> 0, user_id |-> 0, group_id |-> "", failed_at |-> ""]

\* no user record read
NoUser == [username |-> <<>>, email |-> "", firstName |-> "", password |-> "", roles |-> {}, groups |-> {}]

NoLoc ==
    [user_id |-> 0, i |-> 1, found |-> <<>>, post |-> 0, group_map |-> {}, fn |-> 1, group_id |-> "",
     current_user |-> NoUser]

VARIABLES
    pc,          \* per request: the handler segment to run next
    req,         \* per request: Authorization header, token, endpoint, body
    auth,        \* per request: what verify_bearer_token produced
    resp,        \* per request: the response (status 0 while pending)
    loc,         \* per request: the handler's local variables
    log,         \* per request: the outbound calls issued so far
    nreq,        \* requests accepted so far
    jwks,        \* the key ids the authority publishes
    users,       \* realm users by id
    nextId,      \* the id the authority gives the next user
    realmRoles,  \* names of the realm roles
    groups,      \* realm groups, records [id, name]
    nextGid,     \* the number in the id the authority gives the next group
    hist,        \* history: the keycloak_admin.create_user calls made, in order
    fetched,     \* history: the key ids the key-set fetches have returned so far
    realm,       \* the authority holds the realm
    client,      \* the realm holds the API's client
    boot         \* the bootstrap script's run: position, loop indices, locals

vars ==
    <<pc, req, auth, resp, loc, log, nreq, jwks, users, nextId, realmRoles, groups, nextGid, hist,
      fetched, realm, client, boot>>

remote == <<jwks, users, nextId, realmRoles, groups, nextGid>>

\* what only the bootstrap script changes
bootstrap == <<realm, client, boot>>

\* requests one behaviour accepts
MaxRequests == 2

\* the bootstrap script is not running
NoBoot ==
    [pc |-> "off", run |-> 0, i |-> 1, j |-> 1, user_id |-> 0, clean |-> TRUE, settled_at |-> 0]

\* the service runs against a realm the bootstrap script has set up; no key set
\* has been fetched yet
Bootstrapped ==
    /\ fetched = {}
    /\ realm = TRUE
    /\ client = TRUE
    /\ boot = NoBoot

InitProcs ==
    /\ pc = [p \in Procs |-> "idle"]
    /\ req = [p \in Procs |-> NoReq]
    /\ auth = [p \in Procs |-> NoAuth]
    /\ resp = [p \in Procs |-> NoResp]
    /\ loc = [p \in Procs |-> NoLoc]
    /\ log = [p \in Procs |-> <<>>]
    /\ nreq = 0

InitRealm ==
    /\ users = <<>>
    /\ nextId = 1
    /\ realmRoles = {"r1", "r2"}
    /\ groups = {[id |-> "gid1", name |-> "g1"], [id |-> "gid2", name |-> "g2"]}
    /\ nextGid = 3
    /\ hist = <<>>
    /\ Bootstrapped

\* a request arrives
Start(p, h, t, e, b) ==
    /\ pc[p] = "idle"
    /\ nreq < MaxRequests
    /\ nreq' = nreq + 1
    /\ req' = [req EXCEPT ![p] = [header |-> h, token |-> t, endpoint |-> e, body |-> b]]
    /\ pc' = [pc EXCEPT ![p] = "verify"]
    /\ auth' = [auth EXCEPT ![p] = NoAuth]
    /\ resp' = [resp EXCEPT ![p] = NoResp]
    /\ loc' = [loc EXCEPT ![p] = NoLoc]
    /\ log' = [log EXCEPT ![p] = <<>>]
    /\ UNCHANGED <<remote, hist, fetched, bootstrap>>

\* the request ends with an error status
Fail(p, status) ==
    /\ pc' = [pc EXCEPT ![p] = "done"]
    /\ resp' = [resp EXCEPT ![p] = [status |-> status, user_id |-> 0, group_id |-> "", failed_at |-> pc[p]]]

Issue(p, call) == log' = [log EXCEPT ![p] = Append(@, call)]

Repeat(x, n) == [i \in 1..n |-> x]

\* a faulty variant: the handler runs whatever the verification produced
VerifyIgnoresFailure(p) ==
    /\ pc[p] = "verify"
    /\ \E fetchOk \in BOOLEAN :
        LET r == VerifyBearerToken(req[p].header, req[p].token, jwks, fetchOk) IN
        /\ r.fetches = 0 => fetchOk
        /\ auth' = [auth EXCEPT ![p] = r]
        /\ log' = [log EXCEPT ![p] = @ \o Repeat("get_jwks", r.fetches)]
        /\ pc' = [pc EXCEPT ![p] =
                    IF Gated(req[p].endpoint) THEN "gate" ELSE BodyStart(req[p].endpoint)]
        /\ UNCHANGED resp
        /\ fetched' = IF r.fetches > 0 /\ fetchOk THEN fetched \cup jwks ELSE fetched
    /\ UNCHANGED <<req, loc, nreq, remote, hist, bootstrap>>

\* Depends(verify_bearer_token): runs before the handler; its HTTPException is
\* the response, any other exception is a 500
Verify(p) ==
    /\ pc[p] = "verify"
    /\ \E fetchOk \in BOOLEAN :
        LET r == VerifyBearerToken(req[p].header, req[p].token, jwks, fetchOk) IN
        /\ r.fetches = 0 => fetchOk
        /\ auth' = [auth EXCEPT ![p] = r]
        /\ log' = [log EXCEPT ![p] = @ \o Repeat("get_jwks", r.fetches)]
        /\ IF r.status = 200
           THEN /\ pc' = [pc EXCEPT ![p] =
                            IF Gated(req[p].endpoint) THEN "gate" ELSE BodyStart(req[p].endpoint)]
                /\ UNCHANGED resp
           ELSE Fail(p, r.status)
        \* what get_jwks returned, had the service kept it
        /\ fetched' = IF r.fetches > 0 /\ fetchOk THEN fetched \cup jwks ELSE fetched
    /\ UNCHANGED <<req, loc, nreq, remote, hist, bootstrap>>

\* require_superadmin(token), the first statement of a mutating handler
Gate(p) ==
    /\ pc[p] = "gate"
    /\ LET st == RequireSuperadmin(auth[p].claims) IN
       IF st = 0
       THEN /\ pc' = [pc EXCEPT ![p] = BodyStart(req[p].endpoint)]
            /\ UNCHANGED resp
       ELSE Fail(p, st)
    /\ UNCHANGED <<req, auth, loc, log, nreq, remote, hist, fetched, bootstrap>>

\* the handler returns normally
Return(p) ==
    /\ pc[p] = "return"
    /\ pc' = [pc EXCEPT ![p] = "done"]
    /\ resp' = [resp EXCEPT ![p] =
                  [status |-> SuccessStatus(req[p].endpoint),
                   user_id |-> IF req[p].endpoint = "create_user" THEN loc[p].user_id ELSE 0,
                   group_id |-> IF req[p].endpoint = "create_group" THEN loc[p].group_id ELSE "",
                   failed_at |-> ""]]
    /\ UNCHANGED <<req, auth, loc, log, nreq, remote, hist, fetched, bootstrap>>

\* the response is sent and the request's state is dropped
Finish(p) ==
    /\ pc[p] = "done"
    /\ pc' = [pc EXCEPT ![p] = "idle"]
    /\ req' = [req EXCEPT ![p] = NoReq]
    /\ auth' = [auth EXCEPT ![p] = NoAuth]
    /\ resp' = [resp EXCEPT ![p] = NoResp]
    /\ loc' = [loc EXCEPT ![p] = NoLoc]
    /\ log' = [log EXCEPT ![p] = <<>>]
    /\ UNCHANGED <<nreq, remote, hist, fetched, bootstrap>>

(***************************************************************************)
(* Handlers other than POST /users, reduced to the admin calls they issue: *)
(* each keycloak_admin function fetches the admin credential               *)
(* (_admin_headers) and then sends its request.                            *)
(***************************************************************************)
\* the segment that sends the first request of a keycloak_admin function
FirstRequest(fn) ==
    CASE fn = "delete_user" -> "du_delete"
      [] fn = "create_realm_role" -> "cr_post"
      [] fn = "delete_realm_role" -> "dr_delete"
      [] fn = "create_group" -> "cg_post"
      [] fn = "delete_group" -> "dg_delete"
      [] fn = "get_user" -> "gu_get"
      [] fn = "update_user" -> "uu_put"
      [] OTHER -> "fn_call"

\* a faulty variant: the function goes on without the credential
FnTokenIgnoresFailure(p) ==
    /\ pc[p] = "fn_token"
    /\ Issue(p, "admin_token")
    /\ \E ok \in BOOLEAN :
        /\ pc' = [pc EXCEPT ![p] = FirstRequest(AdminCalls(req[p].endpoint)[loc[p].fn])]
        /\ resp' = [resp EXCEPT ![p].failed_at = IF ok THEN "" ELSE "fn_token"]
    /\ UNCHANGED <<req, auth, loc, nreq, remote, hist, fetched, bootstrap>>

\* headers = _admin_headers(), the first remote call of every function
FnToken(p) ==
    /\ pc[p] = "fn_token"
    /\ Issue(p, "admin_token")
    /\ \E ok \in BOOLEAN :
        IF ok
        THEN /\ pc' = [pc EXCEPT ![p] = FirstRequest(AdminCalls(req[p].endpoint)[loc[p].fn])]
             /\ UNCHANGED resp
        ELSE Fail(p, ErrorStatus(req[p].endpoint))
    /\ UNCHANGED <<req, auth, loc, nreq, remote, hist, fetched, bootstrap>>

FnCall(p) ==
    /\ pc[p] = "fn_call"
    /\ LET calls == AdminCalls(req[p].endpoint) IN
       /\ Issue(p, calls[loc[p].fn])
       /\ \E ok \in BOOLEAN :
           IF ~ok THEN Fail(p, ErrorStatus(req[p].endpoint)) /\ UNCHANGED loc
           ELSE IF loc[p].fn = Len(calls)
                THEN pc' = [pc EXCEPT ![p] = "return"] /\ UNCHANGED <<resp, loc>>
                ELSE /\ pc' = [pc EXCEPT ![p] = "fn_token"]
                     /\ loc' = [loc EXCEPT ![p].fn = @ + 1]
                     /\ UNCHANGED resp
    /\ UNCHANGED <<req, auth, nreq, remote, hist, fetched, bootstrap>>

(***************************************************************************)
(* The deleting and creating functions of keycloak_admin behind              *)
(* DELETE /users/{id}, POST /roles, DELETE /roles/{name}, POST /groups and   *)
(* DELETE /groups/{id}. loc.post keeps the status the authority answered.    *)
(***************************************************************************)
\* a faulty variant: not-found is an error
DeleteAcceptsOnlyDeleted(status) == status = 204

\* if response.status_code not in (204, 404): response.raise_for_status()
DeleteAccepts(status) == status \in {204, 404}

\* create_realm_role: if response.status_code not in (201, 409): raise_for_status()
CreateRoleAccepts(status) == status \in {201, 409}

\* a faulty variant: a conflict is an error
CreateGroupAcceptsOnlyCreated(status) == status = 201

\* create_group: if response.status_code not in (201, 409): raise_for_status()
CreateGroupAccepts(status) == status \in {201, 409}

\* what follows the answer of a function's only request
Answered(p, status, accepted) ==
    /\ loc' = [loc EXCEPT ![p].post = status]
    /\ IF accepted THEN pc' = [pc EXCEPT ![p] = "return"] /\ UNCHANGED resp
       ELSE Fail(p, ErrorStatus(req[p].endpoint))

\* delete_user: client.delete(.../users/{user_id})
DuDelete(p) ==
    /\ pc[p] = "du_delete"
    /\ Issue(p, "delete_user")
    /\ \E ok \in BOOLEAN :
        LET id == req[p].body.user_id
            status == IF id \in DOMAIN users THEN 204 ELSE 404
        IN
        IF ~ok THEN Fail(p, ErrorStatus(req[p].endpoint)) /\ UNCHANGED <<loc, users>>
        ELSE /\ users' = RemoveUser(users, id)
             /\ Answered(p, status, DeleteAccepts(status))
    /\ UNCHANGED <<req, auth, nreq, jwks, nextId, realmRoles, groups, nextGid, hist, fetched, bootstrap>>

\* create_realm_role: client.post(.../roles, json=payload)
CrPost(p) ==
    /\ pc[p] = "cr_post"
    /\ Issue(p, "post_role")
    /\ \E ok \in BOOLEAN :
        LET name == req[p].body.name
            status == IF name \in realmRoles THEN 409 ELSE 201
        IN
        IF ~ok THEN Fail(p, ErrorStatus(req[p].endpoint)) /\ UNCHANGED <<loc, realmRoles>>
        ELSE /\ realmRoles' = realmRoles \cup {name}
             /\ Answered(p, status, CreateRoleAccepts(status))
    /\ UNCHANGED <<req, auth, nreq, jwks, users, nextId, groups, nextGid, hist, fetched, bootstrap>>

\* delete_realm_role: client.delete(.../roles/{role_name})
DrDelete(p) ==
    /\ pc[p] = "dr_delete"
    /\ Issue(p, "delete_role")
    /\ \E ok \in BOOLEAN :
        LET name == req[p].body.name
            status == IF name \in realmRoles THEN 204 ELSE 404
        IN
        IF ~ok THEN Fail(p, ErrorStatus(req[p].endpoint)) /\ UNCHANGED <<loc, realmRoles, users>>
        ELSE /\ realmRoles' = realmRoles \ {name}
             /\ users' = DropRole(users, name)
             /\ Answered(p, status, DeleteAccepts(status))
    /\ UNCHANGED <<req, auth, nreq, jwks, nextId, groups, nextGid, hist, fetched, bootstrap>>

\* create_group: client.post(.../groups, json=payload)
CgPost(p) ==
    /\ pc[p] = "cg_post"
    /\ Issue(p, "post_group")
    /\ \E ok \in BOOLEAN :
        LET name == req[p].body.name
            status == IF \E g \in groups : g.name = name THEN 409 ELSE 201
        IN
        IF ~ok THEN Fail(p, ErrorStatus(req[p].endpoint)) /\ UNCHANGED <<loc, groups, nextGid>>
        ELSE /\ IF status = 201
                THEN /\ groups' = groups \cup {[id |-> NewGroupId(nextGid), name |-> name]}
                     /\ nextGid' = nextGid + 1
                ELSE UNCHANGED <<groups, nextGid>>
             /\ loc' = [loc EXCEPT ![p].post = status]
             /\ IF CreateGroupAccepts(status)
                THEN pc' = [pc EXCEPT ![p] = "cg_get"] /\ UNCHANGED resp
                ELSE Fail(p, ErrorStatus(req[p].endpoint))
    /\ UNCHANGED <<req, auth, nreq, jwks, users, nextId, realmRoles, hist, fetched, bootstrap>>

\* a faulty variant: with no group of that name the function returns no id
\* instead of raising
CgGetReturnsNone(p) ==
    /\ pc[p] = "cg_get"
    /\ Issue(p, "get_groups")
    /\ \E ok \in BOOLEAN :
        LET name == req[p].body.name IN
        IF ~ok THEN Fail(p, ErrorStatus(req[p].endpoint)) /\ UNCHANGED loc
        ELSE /\ loc' = [loc EXCEPT ![p].group_map = groups,
                                   ![p].group_id = IF \E g \in groups : g.name = name
                                                   THEN (CHOOSE g \in groups : g.name = name).id
                                                   ELSE ""]
             /\ pc' = [pc EXCEPT ![p] = "return"]
             /\ UNCHANGED resp
    /\ UNCHANGED <<req, auth, nreq, remote, hist, fetched, bootstrap>>

\* create_group: groups = client.get(url).json(), kept in loc.group_map; the id
\* of the first group of that name, RuntimeError when there is none
CgGet(p) ==
    /\ pc[p] = "cg_get"
    /\ Issue(p, "get_groups")
    /\ \E ok \in BOOLEAN :
        LET name == req[p].body.name IN
        IF ~ok THEN Fail(p, ErrorStatus(req[p].endpoint)) /\ UNCHANGED loc
        ELSE IF \E g \in groups : g.name = name
        THEN /\ loc' = [loc EXCEPT ![p].group_map = groups,
                                   ![p].group_id = (CHOOSE g \in groups : g.name = name).id]
             /\ pc' = [pc EXCEPT ![p] = "return"]
             /\ UNCHANGED resp
        ELSE /\ loc' = [loc EXCEPT ![p].group_map = groups]
             /\ Fail(p, ErrorStatus(req[p].endpoint))
    /\ UNCHANGED <<req, auth, nreq, remote, hist, fetched, bootstrap>>

\* delete_group: client.delete(.../groups/{group_id})
DgDelete(p) ==
    /\ pc[p] = "dg_delete"
    /\ Issue(p, "delete_group")
    /\ \E ok \in BOOLEAN :
        LET gid == req[p].body.name
            status == IF \E g \in groups : g.id = gid THEN 204 ELSE 404
        IN
        IF ~ok THEN Fail(p, ErrorStatus(req[p].endpoint)) /\ UNCHANGED <<loc, groups, users>>
        ELSE /\ groups' = {g \in groups : g.id # gid}
             /\ users' = DropGroup(users, gid)
             /\ Answered(p, status, DeleteAccepts(status))
    /\ UNCHANGED <<req, auth, nreq, jwks, nextId, realmRoles, nextGid, hist, fetched, bootstrap>>

\* keycloak_admin.get_user: GET /users/{id}, raise_for_status on 404; in
\* PUT /users/{id} the handler then sets the provided fields on the record read
GuGet(p) ==
    /\ pc[p] = "gu_get"
    /\ Issue(p, "get_user")
    /\ \E ok \in BOOLEAN :
        LET id == req[p].body.user_id
            calls == AdminCalls(req[p].endpoint)
        IN
        IF ~ok \/ id \notin DOMAIN users
        THEN Fail(p, ErrorStatus(req[p].endpoint)) /\ UNCHANGED loc
        ELSE /\ loc' = [loc EXCEPT
                        ![p].current_user =
                            IF req[p].endpoint = "update_user"
                            THEN ApplyUpdate(users[id], req[p].body) ELSE users[id],
                        ![p].fn = IF loc[p].fn = Len(calls) THEN @ ELSE @ + 1]
             /\ pc' = [pc EXCEPT ![p] = IF loc[p].fn = Len(calls) THEN "return" ELSE "fn_token"]
             /\ UNCHANGED resp
    /\ UNCHANGED <<req, auth, nreq, remote, hist, fetched, bootstrap>>

\* keycloak_admin.update_user(user_id, current_user): PUT /users/{id} with the
\* whole record; 404 and 409 raise
UuPut(p) ==
    /\ pc[p] = "uu_put"
    /\ Issue(p, "update_user")
    /\ \E ok \in BOOLEAN :
        LET id == req[p].body.user_id
            user_data == loc[p].current_user
        IN
        IF ~ok \/ id \notin DOMAIN users \/ EmailConflict(users, id, user_data.email)
        THEN Fail(p, ErrorStatus(req[p].endpoint)) /\ UNCHANGED users
        ELSE /\ users' = PutUser(users, id, user_data)
             /\ pc' = [pc EXCEPT ![p] = "return"]
             /\ UNCHANGED resp
    /\ UNCHANGED <<req, auth, loc, nreq, jwks, nextId, realmRoles, groups, nextGid, hist, fetched, bootstrap>>

UpdateStep(p) == GuGet(p) \/ UuPut(p)

AdminStep(p) ==
    \/ DuDelete(p) \/ CrPost(p) \/ DrDelete(p)
    \/ CgPost(p) \/ CgGet(p) \/ DgDelete(p)

(***************************************************************************)
(* POST /users (routes/users.py:186-221): keycloak_admin.create_user,      *)
(* set_user_password, assign_roles_to_user, list_groups and                *)
(* add_user_to_group, inside one try whose except clause answers 500.      *)
(***************************************************************************)
\* one finished keycloak_admin.create_user call: id 0 when it raised,
\* fault when a request of it failed in transport or with an error status
Called(p, post, id, fault) ==
    hist' = Append(hist, [username |-> req[p].body.username, email |-> req[p].body.email,
                          post |-> post, id |-> id, fault |-> fault])

\* if response.status_code not in (201, 409): response.raise_for_status()
CreateAcceptsOnlyCreated(status) == status = 201

CreateAccepts(status) == status \in {201, 409}

\* the segment after set_user_password: if user.roles / if user.groups
AfterRoles(body) == IF body.groups # <<>> THEN "lg_token" ELSE "return"

\* a faulty variant: the group step is entered before the role step
AfterPasswordGroupsFirst(body) ==
    IF body.groups # <<>> THEN "lg_token"
    ELSE IF body.roles # <<>> THEN "ar_token"
    ELSE "return"

AfterPassword(body) == IF body.roles # <<>> THEN "ar_token" ELSE AfterRoles(body)

\* for role_name in role_names: if not role_name: continue
RECURSIVE NextRole(_, _)
NextRole(names, i) ==
    IF i > Len(names) THEN i
    ELSE IF names[i] = "" THEN NextRole(names, i + 1)
    ELSE i

\* a faulty variant: the mapping call is sent also when no name resolved
AfterRoleLookupAlwaysPosts(body, i, found) ==
    IF NextRole(body.roles, i) <= Len(body.roles) THEN "ar_get" ELSE "ar_post"

\* the segment after the role at index i - 1 was looked up; found are the roles so far
AfterRoleLookup(body, i, found) ==
    IF NextRole(body.roles, i) <= Len(body.roles) THEN "ar_get"
    ELSE IF found = <<>> THEN AfterRoles(body)
    ELSE "ar_post"

\* group_map = {g["name"]: g["id"] for g in all_groups}
GroupId(map, name) == (CHOOSE g \in map : g.name = name).id

\* for group_name in user.groups: if group_name in group_map
RECURSIVE NextGroup(_, _, _)
NextGroup(names, i, map) ==
    IF i > Len(names) THEN i
    ELSE IF \E g \in map : g.name = names[i] THEN i
    ELSE NextGroup(names, i + 1, map)

AfterGroup(body, i, map) ==
    IF NextGroup(body.groups, i, map) <= Len(body.groups) THEN "ag_token" ELSE "return"

\* create_user: headers = _admin_headers()
CuToken(p) ==
    /\ pc[p] = "cu_token"
    /\ Issue(p, "admin_token")
    /\ \E ok \in BOOLEAN :
        IF ok THEN pc' = [pc EXCEPT ![p] = "cu_post"] /\ UNCHANGED <<resp, hist>>
        ELSE Fail(p, 500) /\ Called(p, 0, 0, TRUE)
    /\ UNCHANGED <<req, auth, loc, nreq, remote, fetched, bootstrap>>

\* create_user: client.post(url, json=payload)
CuPost(p) ==
    /\ pc[p] = "cu_post"
    /\ Issue(p, "post_user")
    /\ \E ok \in BOOLEAN :
        LET b == req[p].body
            status == IF UserConflict(users, b.username, b.email) THEN 409 ELSE 201
        IN
        IF ~ok
        THEN Fail(p, 500) /\ Called(p, 0, 0, TRUE) /\ UNCHANGED <<loc, users, nextId>>
        ELSE /\ IF status = 201
                THEN /\ users' = Extend(users, nextId, NewUser(b.username, b.email))
                     /\ nextId' = nextId + 1
                ELSE UNCHANGED <<users, nextId>>
             /\ IF CreateAccepts(status)
                THEN /\ pc' = [pc EXCEPT ![p] = "cu_get"]
                     /\ loc' = [loc EXCEPT ![p].post = status]
                     /\ UNCHANGED <<resp, hist>>
                ELSE Fail(p, 500) /\ Called(p, status, 0, FALSE) /\ UNCHANGED loc
    /\ UNCHANGED <<req, auth, nreq, jwks, realmRoles, groups, nextGid, fetched, bootstrap>>

\* create_user: users = client.get(url, params={"username": username}).json();
\* RuntimeError when the list is empty, else users[0]["id"]
CuGet(p) ==
    /\ pc[p] = "cu_get"
    /\ Issue(p, "get_users")
    /\ \E ok \in BOOLEAN :
        LET found == SearchUsers(users, req[p].body.username) IN
        IF ~ok THEN Fail(p, 500) /\ Called(p, loc[p].post, 0, TRUE) /\ UNCHANGED loc
        ELSE IF found = <<>> THEN Fail(p, 500) /\ Called(p, loc[p].post, 0, FALSE) /\ UNCHANGED loc
        ELSE /\ loc' = [loc EXCEPT ![p].user_id = found[1]]
             /\ pc' = [pc EXCEPT ![p] = "pw_token"]
             /\ Called(p, loc[p].post, found[1], FALSE)
             /\ UNCHANGED resp
    /\ UNCHANGED <<req, auth, nreq, remote, fetched, bootstrap>>

\* set_user_password: headers = _admin_headers()
PwToken(p) ==
    /\ pc[p] = "pw_token"
    /\ Issue(p, "admin_token")
    /\ \E ok \in BOOLEAN :
        IF ok THEN pc' = [pc EXCEPT ![p] = "pw_put"] /\ UNCHANGED resp
        ELSE Fail(p, 500)
    /\ UNCHANGED <<req, auth, loc, nreq, remote, hist, fetched, bootstrap>>

\* a faulty variant: the failure of the password call is swallowed
PwPutSwallowsFailure(p) ==
    /\ pc[p] = "pw_put"
    /\ Issue(p, "put_password")
    /\ \E ok \in BOOLEAN :
        /\ pc' = [pc EXCEPT ![p] = AfterPassword(req[p].body)]
        /\ resp' = [resp EXCEPT ![p].failed_at = IF ok THEN "" ELSE "pw_put"]
        /\ IF ok /\ loc[p].user_id \in DOMAIN users
           THEN users' = [users EXCEPT ![loc[p].user_id].password = req[p].body.password]
           ELSE UNCHANGED users
    /\ UNCHANGED <<req, auth, loc, nreq, jwks, nextId, realmRoles, groups, nextGid, hist, fetched, bootstrap>>

\* set_user_password: client.put(.../reset-password); response.raise_for_status()
PwPut(p) ==
    /\ pc[p] = "pw_put"
    /\ Issue(p, "put_password")
    /\ \E ok \in BOOLEAN :
        IF ok /\ loc[p].user_id \in DOMAIN users
        THEN /\ users' = [users EXCEPT ![loc[p].user_id].password = req[p].body.password]
             /\ pc' = [pc EXCEPT ![p] = AfterPassword(req[p].body)]
             /\ UNCHANGED resp
        ELSE Fail(p, 500) /\ UNCHANGED users
    /\ UNCHANGED <<req, auth, loc, nreq, jwks, nextId, realmRoles, groups, nextGid, hist, fetched, bootstrap>>

\* assign_roles_to_user: headers = _admin_headers(); roles = []
ArToken(p) ==
    /\ pc[p] = "ar_token"
    /\ Issue(p, "admin_token")
    /\ \E ok \in BOOLEAN :
        IF ok
        THEN /\ pc' = [pc EXCEPT ![p] = AfterRoleLookup(req[p].body, 1, <<>>)]
             /\ loc' = [loc EXCEPT ![p].i = NextRole(req[p].body.roles, 1), ![p].found = <<>>]
             /\ UNCHANGED resp
        ELSE Fail(p, 500) /\ UNCHANGED loc
    /\ UNCHANGED <<req, auth, nreq, remote, hist, fetched, bootstrap>>

\* a faulty variant: a name that does not resolve aborts the batch
ArGetAbortsOnUnresolved(p) ==
    /\ pc[p] = "ar_get"
    /\ Issue(p, "get_role")
    /\ \E ok \in BOOLEAN :
        LET name == req[p].body.roles[loc[p].i]
            found == Append(loc[p].found, name)
        IN
        IF ok /\ name \in realmRoles
        THEN /\ loc' = [loc EXCEPT ![p].i = NextRole(req[p].body.roles, loc[p].i + 1), ![p].found = found]
             /\ pc' = [pc EXCEPT ![p] = AfterRoleLookup(req[p].body, loc[p].i + 1, found)]
             /\ UNCHANGED resp
        ELSE Fail(p, 500) /\ UNCHANGED loc
    /\ UNCHANGED <<req, auth, nreq, remote, hist, fetched, bootstrap>>

\* assign_roles_to_user: r = client.get(role_url); a status other than 200 and
\* an exception both skip the name
ArGet(p) ==
    /\ pc[p] = "ar_get"
    /\ Issue(p, "get_role")
    /\ \E ok \in BOOLEAN :
        LET name == req[p].body.roles[loc[p].i]
            found == IF ok /\ name \in realmRoles THEN Append(loc[p].found, name) ELSE loc[p].found
        IN
        /\ loc' = [loc EXCEPT ![p].i = NextRole(req[p].body.roles, loc[p].i + 1), ![p].found = found]
        /\ pc' = [pc EXCEPT ![p] = AfterRoleLookup(req[p].body, loc[p].i + 1, found)]
    /\ UNCHANGED <<req, auth, resp, nreq, remote, hist, fetched, bootstrap>>

\* assign_roles_to_user: client.post(.../role-mappings/realm, json=roles);
\* a status outside (204, 409) raises
ArPost(p) ==
    /\ pc[p] = "ar_post"
    /\ Issue(p, "post_role_mappings")
    /\ \E ok \in BOOLEAN :
        IF ok /\ loc[p].user_id \in DOMAIN users
        THEN /\ users' = [users EXCEPT ![loc[p].user_id].roles = @ \cup (Range(loc[p].found) \cap realmRoles)]
             /\ pc' = [pc EXCEPT ![p] = AfterRoles(req[p].body)]
             /\ UNCHANGED resp
        ELSE Fail(p, 500) /\ UNCHANGED users
    /\ UNCHANGED <<req, auth, loc, nreq, jwks, nextId, realmRoles, groups, nextGid, hist, fetched, bootstrap>>

\* list_groups: headers = _admin_headers()
LgToken(p) ==
    /\ pc[p] = "lg_token"
    /\ Issue(p, "admin_token")
    /\ \E ok \in BOOLEAN :
        IF ok THEN pc' = [pc EXCEPT ![p] = "lg_get"] /\ UNCHANGED resp
        ELSE Fail(p, 500)
    /\ UNCHANGED <<req, auth, loc, nreq, remote, hist, fetched, bootstrap>>

\* list_groups: client.get(.../groups); raise_for_status; then group_map
LgGet(p) ==
    /\ pc[p] = "lg_get"
    /\ Issue(p, "get_groups")
    /\ \E ok \in BOOLEAN :
        IF ok
        THEN /\ loc' = [loc EXCEPT ![p].group_map = groups, ![p].i = NextGroup(req[p].body.groups, 1, groups)]
             /\ pc' = [pc EXCEPT ![p] = AfterGroup(req[p].body, 1, groups)]
             /\ UNCHANGED resp
        ELSE Fail(p, 500) /\ UNCHANGED loc
    /\ UNCHANGED <<req, auth, nreq, remote, hist, fetched, bootstrap>>

\* add_user_to_group: headers = _admin_headers()
AgToken(p) ==
    /\ pc[p] = "ag_token"
    /\ Issue(p, "admin_token")
    /\ \E ok \in BOOLEAN :
        IF ok THEN pc' = [pc EXCEPT ![p] = "ag_put"] /\ UNCHANGED resp
        ELSE Fail(p, 500)
    /\ UNCHANGED <<req, auth, loc, nreq, remote, hist, fetched, bootstrap>>

\* a faulty variant: the user is added to every group of the listing
AgPutAddsAll(p) ==
    /\ pc[p] = "ag_put"
    /\ Issue(p, "put_group")
    /\ \E ok \in BOOLEAN :
        IF ok /\ loc[p].user_id \in DOMAIN users
        THEN /\ users' = [users EXCEPT ![loc[p].user_id].groups = @ \cup {g.id : g \in loc[p].group_map}]
             /\ loc' = [loc EXCEPT ![p].i = NextGroup(req[p].body.groups, loc[p].i + 1, loc[p].group_map)]
             /\ pc' = [pc EXCEPT ![p] = AfterGroup(req[p].body, loc[p].i + 1, loc[p].group_map)]
             /\ UNCHANGED resp
        ELSE Fail(p, 500) /\ UNCHANGED <<users, loc>>
    /\ UNCHANGED <<req, auth, nreq, jwks, nextId, realmRoles, groups, nextGid, hist, fetched, bootstrap>>

\* add_user_to_group: client.put(.../users/{id}/groups/{group_id}); a status
\* outside (204, 409) raises
AgPut(p) ==
    /\ pc[p] = "ag_put"
    /\ Issue(p, "put_group")
    /\ \E ok \in BOOLEAN :
        LET gid == GroupId(loc[p].group_map, req[p].body.groups[loc[p].i]) IN
        IF ok /\ loc[p].user_id \in DOMAIN users /\ (\E g \in groups : g.id = gid)
        THEN /\ users' = [users EXCEPT ![loc[p].user_id].groups = @ \cup {gid}]
             /\ loc' = [loc EXCEPT ![p].i = NextGroup(req[p].body.groups, loc[p].i + 1, loc[p].group_map)]
             /\ pc' = [pc EXCEPT ![p] = AfterGroup(req[p].body, loc[p].i + 1, loc[p].group_map)]
             /\ UNCHANGED resp
        ELSE Fail(p, 500) /\ UNCHANGED <<users, loc>>
    /\ UNCHANGED <<req, auth, nreq, jwks, nextId, realmRoles, groups, nextGid, hist, fetched, bootstrap>>

CreateUserStep(p) ==
    \/ CuToken(p) \/ CuPost(p) \/ CuGet(p)
    \/ PwToken(p) \/ PwPut(p)
    \/ ArToken(p) \/ ArGet(p) \/ ArPost(p)
    \/ LgToken(p) \/ LgGet(p)
    \/ AgToken(p) \/ AgPut(p)

(***************************************************************************)
(* POST /auth/refresh (routes/auth.py:83-127): no bearer token is asked    *)
(* for; refresh_keycloak_token posts to the token endpoint, decode_token   *)
(* reads the new access token.                                             *)
(***************************************************************************)
\* how a request to the authority can end
Outcomes == {"ok", "http_status", "transport"}

\* the status POST /auth/refresh answers after the token endpoint ended with
\* outcome o: HTTPStatusError becomes HTTPException(401) in
\* refresh_keycloak_token, any other exception becomes 401 in the route
RefreshFailure(o) ==
    CASE o = "http_status" -> 401
      [] OTHER -> 401

StartRefresh(p) ==
    /\ pc[p] = "idle"
    /\ nreq < MaxRequests
    /\ nreq' = nreq + 1
    /\ req' = [req EXCEPT ![p] = [NoReq EXCEPT !.endpoint = "refresh"]]
    /\ pc' = [pc EXCEPT ![p] = "rf_post"]
    /\ auth' = [auth EXCEPT ![p] = NoAuth]
    /\ resp' = [resp EXCEPT ![p] = NoResp]
    /\ loc' = [loc EXCEPT ![p] = NoLoc]
    /\ log' = [log EXCEPT ![p] = <<>>]
    /\ UNCHANGED <<remote, hist, fetched, bootstrap>>

\* token_data = refresh_keycloak_token(request.refresh_token)
RfPost(p) ==
    /\ pc[p] = "rf_post"
    /\ Issue(p, "post_token")
    /\ \E o \in Outcomes :
        IF o = "ok" THEN pc' = [pc EXCEPT ![p] = "rf_decode"] /\ UNCHANGED resp
        ELSE Fail(p, RefreshFailure(o))
    /\ UNCHANGED <<req, auth, loc, nreq, remote, hist, fetched, bootstrap>>

\* user_data = decode_token(token_data["access_token"]): the token is the one
\* the authority has just issued; a failed get_jwks is caught by the route's
\* except Exception
RfDecode(p) ==
    /\ pc[p] = "rf_decode"
    /\ Issue(p, "get_jwks")
    /\ \E fetchOk \in BOOLEAN :
        /\ IF fetchOk THEN pc' = [pc EXCEPT ![p] = "return"] /\ UNCHANGED resp
           ELSE Fail(p, 401)
        /\ fetched' = IF fetchOk THEN fetched \cup jwks ELSE fetched
    /\ UNCHANGED <<req, auth, loc, nreq, remote, hist, bootstrap>>

RefreshStep(p) == StartRefresh(p) \/ RfPost(p) \/ RfDecode(p)

(***************************************************************************)
(* keycloak-bootstrap/bootstrap_keycloak.py: main runs get_admin_token,     *)
(* create_realm, create_client, create_roles, create_groups, create_users   *)
(* under one token; an exception ends the run with exit status 1.  Each     *)
(* action is one request of the script.  A request ends "ok" (the authority *)
(* answers as its state demands), "http_status" (it answers an error status *)
(* and changes nothing) or "transport" (httpx raises).                      *)
(* boot.clean: every request of the run so far ended "ok";                  *)
(* boot.settled_at: the first run that completed clean (0: none yet).       *)
(***************************************************************************)
\* runs of the script in one behaviour
MaxRuns == 2

\* create_roles: roles
BootRoles == <<"realm-admin", "user-manager", "viewer">>

\* create_groups: groups
BootGroups == <<"admins", "developers", "analysts">>

\* create_users: users
BootUsers ==
    <<[username |-> <<"admin">>, email |-> "admin@example.com", firstName |-> "Admin",
       password |-> "admin123", roles |-> <<"realm-admin">>],
      [username |-> <<"john">>, email |-> "john@example.com", firstName |-> "John",
       password |-> "password123", roles |-> <<"user-manager">>]>>

\* GET /admin/realms/{realm}/users?username=x&exact=true
ExactSearch(us, x) ==
    IF \E i \in DOMAIN us : us[i].username = x
    THEN <<CHOOSE i \in DOMAIN us : us[i].username = x>>
    ELSE <<>>

\* the status of a request that ended with outcome o, the authority's answer
\* being status when it processes the request; a request into a realm that
\* does not exist is answered 404
Answer(o, inRealm, status) ==
    IF o # "ok" THEN 500 ELSE IF inRealm /\ ~realm THEN 404 ELSE status

\* the script's run ends in main's except clause after a request that ended
\* with outcome o: sys.exit(1)
BootFail(o) == boot' = [boot EXCEPT !.pc = "failed", !.clean = @ /\ o = "ok"]

\* the script goes on at segment at after a request that ended with outcome o
BootGo(o, at, i, j, user_id) ==
    boot' = [boot EXCEPT !.pc = at, !.i = i, !.j = j, !.user_id = user_id,
                         !.clean = @ /\ o = "ok",
                         !.settled_at = IF at = "done" /\ boot.clean /\ o = "ok" /\ @ = 0
                                        THEN boot.run ELSE @]

\* the segment after the i-th user of create_users
AfterUser(i) == IF i < Len(BootUsers) THEN "user_get" ELSE "done"

\* python bootstrap_keycloak.py
BootRun ==
    /\ boot.pc \in {"off", "done", "failed"}
    /\ boot.run < MaxRuns
    /\ boot' = [boot EXCEPT !.pc = "token", !.run = @ + 1, !.i = 1, !.j = 1, !.user_id = 0,
                            !.clean = TRUE]
    /\ UNCHANGED <<pc, req, auth, resp, loc, log, nreq, remote, hist, fetched, realm, client>>

\* get_admin_token: raise_for_status
BootToken ==
    /\ boot.pc = "token"
    /\ \E o \in Outcomes :
        IF o = "ok" THEN BootGo(o, "realm_get", 1, 1, 0) ELSE BootFail(o)
    /\ UNCHANGED <<pc, req, auth, resp, loc, log, nreq, remote, hist, fetched, realm, client>>

\* create_realm: GET /admin/realms/{realm}; 200: return
BootRealmGet ==
    /\ boot.pc = "realm_get"
    /\ \E o \in Outcomes :
        IF o = "transport" THEN BootFail(o)
        ELSE IF Answer(o, TRUE, 200) = 200 THEN BootGo(o, "client_get", 1, 1, 0)
        ELSE BootGo(o, "realm_post", 1, 1, 0)
    /\ UNCHANGED <<pc, req, auth, resp, loc, log, nreq, remote, hist, fetched, realm, client>>

\* create_realm: POST /admin/realms; the status is only printed
BootRealmPost ==
    /\ boot.pc = "realm_post"
    /\ \E o \in Outcomes :
        IF o = "transport" THEN BootFail(o) /\ UNCHANGED realm
        ELSE /\ realm' = (realm \/ o = "ok")
             /\ BootGo(o, "client_get", 1, 1, 0)
    /\ UNCHANGED <<pc, req, auth, resp, loc, log, nreq, remote, hist, fetched, client>>

\* create_client: GET clients?clientId=...; 200 with a non-empty list: return
BootClientGet ==
    /\ boot.pc = "client_get"
    /\ \E o \in Outcomes :
        IF o = "transport" THEN BootFail(o)
        ELSE IF Answer(o, TRUE, 200) = 200 /\ client THEN BootGo(o, "role_get", 1, 1, 0)
        ELSE BootGo(o, "client_post", 1, 1, 0)
    /\ UNCHANGED <<pc, req, auth, resp, loc, log, nreq, remote, hist, fetched, realm, client>>

\* create_client: POST clients; the status is only printed
BootClientPost ==
    /\ boot.pc = "client_post"
    /\ \E o \in Outcomes :
        IF o = "transport" THEN BootFail(o) /\ UNCHANGED client
        ELSE /\ client' = (client \/ Answer(o, TRUE, 201) = 201)
             /\ BootGo(o, "role_get", 1, 1, 0)
    /\ UNCHANGED <<pc, req, auth, resp, loc, log, nreq, remote, hist, fetched, realm>>

\* the segment after the i-th role of create_roles
AfterRole(i) == IF i < Len(BootRoles) THEN "role_get" ELSE "group_post"

\* create_roles: GET roles/{name}; 200: continue
BootRoleGet ==
    /\ boot.pc = "role_get"
    /\ \E o \in Outcomes :
        LET i == boot.i
            status == Answer(o, TRUE, IF BootRoles[i] \in realmRoles THEN 200 ELSE 404)
        IN
        IF o = "transport" THEN BootFail(o)
        ELSE IF status = 200
             THEN BootGo(o, AfterRole(i), IF i < Len(BootRoles) THEN i + 1 ELSE 1, 1, 0)
        ELSE BootGo(o, "role_post", i, 1, 0)
    /\ UNCHANGED <<pc, req, auth, resp, loc, log, nreq, remote, hist, fetched, realm, client>>

\* create_roles: POST roles; the status is only printed
BootRolePost ==
    /\ boot.pc = "role_post"
    /\ \E o \in Outcomes :
        LET i == boot.i
            status == Answer(o, TRUE, IF BootRoles[i] \in realmRoles THEN 409 ELSE 201)
        IN
        IF o = "transport" THEN BootFail(o) /\ UNCHANGED realmRoles
        ELSE /\ realmRoles' = IF status = 201 THEN realmRoles \cup {BootRoles[i]} ELSE realmRoles
             /\ BootGo(o, AfterRole(i), IF i < Len(BootRoles) THEN i + 1 ELSE 1, 1, 0)
    /\ UNCHANGED <<pc, req, auth, resp, loc, log, nreq, jwks, users, nextId, groups, nextGid, hist,
                   fetched, realm, client>>

\* a faulty variant: create_groups raises for every status but 201
GroupPostRaisesUnlessCreated(status) == status # 201

\* create_groups: 201, 409 and every other status are printed, none raises
GroupPostRaises(status) == FALSE

\* create_groups: POST groups for each name, without a lookup
BootGroupPost ==
    /\ boot.pc = "group_post"
    /\ \E o \in Outcomes :
        LET i == boot.i
            name == BootGroups[i]
            status == Answer(o, TRUE, IF \E g \in groups : g.name = name THEN 409 ELSE 201)
        IN
        IF o = "transport" THEN BootFail(o) /\ UNCHANGED <<groups, nextGid>>
        ELSE /\ IF status = 201
                THEN /\ groups' = groups \cup {[id |-> NewGroupId(nextGid), name |-> name]}
                     /\ nextGid' = nextGid + 1
                ELSE UNCHANGED <<groups, nextGid>>
             /\ IF GroupPostRaises(status) THEN BootFail(o)
                ELSE IF i < Len(BootGroups) THEN BootGo(o, "group_post", i + 1, 1, 0)
                ELSE BootGo(o, "user_get", 1, 1, 0)
    /\ UNCHANGED <<pc, req, auth, resp, loc, log, nreq, jwks, users, nextId, realmRoles, hist,
                   fetched, realm, client>>

\* create_users: GET users?username=...&exact=true; 200 with a non-empty
\* list: user_id = response.json()[0]["id"]
BootUserGet ==
    /\ boot.pc = "user_get"
    /\ \E o \in Outcomes :
        LET i == boot.i
            found == ExactSearch(users, BootUsers[i].username)
        IN
        IF o = "transport" THEN BootFail(o)
        ELSE IF Answer(o, TRUE, 200) = 200 /\ found # <<>>
             THEN BootGo(o, "password", i, 1, found[1])
        ELSE BootGo(o, "user_post", i, 1, 0)
    /\ UNCHANGED <<pc, req, auth, resp, loc, log, nreq, remote, hist, fetched, realm, client>>

\* create_users: POST users; not 201: continue; else the id of the Location header
BootUserPost ==
    /\ boot.pc = "user_post"
    /\ \E o \in Outcomes :
        LET i == boot.i
            u == BootUsers[i]
            status == Answer(o, TRUE, IF UserConflict(users, u.username, u.email) THEN 409 ELSE 201)
        IN
        IF o = "transport" THEN BootFail(o) /\ UNCHANGED <<users, nextId>>
        ELSE IF status = 201
             THEN /\ users' = Extend(users, nextId,
                                     [NewUser(u.username, u.email) EXCEPT !.firstName = u.firstName])
                  /\ nextId' = nextId + 1
                  /\ BootGo(o, "password", i, 1, nextId)
        ELSE /\ UNCHANGED <<users, nextId>>
             /\ BootGo(o, AfterUser(i), IF i < Len(BootUsers) THEN i + 1 ELSE i, 1, 0)
    /\ UNCHANGED <<pc, req, auth, resp, loc, log, nreq, jwks, realmRoles, groups, nextGid, hist,
                   fetched, realm, client>>

\* create_users: PUT users/{id}/reset-password; the status is only printed
BootPassword ==
    /\ boot.pc = "password"
    /\ \E o \in Outcomes :
        LET i == boot.i
            id == boot.user_id
            status == Answer(o, TRUE, IF id \in DOMAIN users THEN 204 ELSE 404)
        IN
        IF o = "transport" THEN BootFail(o) /\ UNCHANGED users
        ELSE /\ users' = IF status = 204
                          THEN [users EXCEPT ![id].password = BootUsers[i].password] ELSE users
             /\ BootGo(o, "urole_get", i, 1, id)
    /\ UNCHANGED <<pc, req, auth, resp, loc, log, nreq, jwks, nextId, realmRoles, groups, nextGid,
                   hist, fetched, realm, client>>

\* the segment after the j-th role of the i-th user
AfterUserRole(i, j) == IF j < Len(BootUsers[i].roles) THEN "urole_get" ELSE AfterUser(i)

\* the script goes on after the j-th role of the i-th user
BootNextUserRole(o) ==
    LET i == boot.i
        j == boot.j
    IN IF j < Len(BootUsers[i].roles) THEN BootGo(o, "urole_get", i, j + 1, boot.user_id)
       ELSE BootGo(o, AfterUser(i), IF i < Len(BootUsers) THEN i + 1 ELSE i, 1, 0)

\* create_users: GET roles/{role_name}; not 200: continue
BootUserRoleGet ==
    /\ boot.pc = "urole_get"
    /\ \E o \in Outcomes :
        LET role_name == BootUsers[boot.i].roles[boot.j]
            status == Answer(o, TRUE, IF role_name \in realmRoles THEN 200 ELSE 404)
        IN
        IF o = "transport" THEN BootFail(o)
        ELSE IF status = 200 THEN BootGo(o, "urole_post", boot.i, boot.j, boot.user_id)
        ELSE BootNextUserRole(o)
    /\ UNCHANGED <<pc, req, auth, resp, loc, log, nreq, remote, hist, fetched, realm, client>>

\* create_users: POST users/{id}/role-mappings/realm; the status is only printed
BootUserRolePost ==
    /\ boot.pc = "urole_post"
    /\ \E o \in Outcomes :
        LET id == boot.user_id
            role_name == BootUsers[boot.i].roles[boot.j]
            status == Answer(o, TRUE,
                             IF id \in DOMAIN users /\ role_name \in realmRoles THEN 204 ELSE 404)
        IN
        IF o = "transport" THEN BootFail(o) /\ UNCHANGED users
        ELSE /\ users' = IF status = 204
                          THEN [users EXCEPT ![id].roles = @ \cup {role_name}] ELSE users
             /\ BootNextUserRole(o)
    /\ UNCHANGED <<pc, req, auth, resp, loc, log, nreq, jwks, nextId, realmRoles, groups, nextGid,
                   hist, fetched, realm, client>>

\* an authority that holds nothing yet
InitBoot ==
    /\ InitProcs
    /\ jwks = {"k1"}
    /\ users = <<>>
    /\ nextId = 1
    /\ realmRoles = {}
    /\ groups = {}
    /\ nextGid = 1
    /\ hist = <<>>
    /\ fetched = {}
    /\ realm = FALSE
    /\ client = FALSE
    /\ boot = NoBoot

NextBoot ==
    \/ BootRun \/ BootToken \/ BootRealmGet \/ BootRealmPost \/ BootClientGet \/ BootClientPost
    \/ BootRoleGet \/ BootRolePost \/ BootGroupPost \/ BootUserGet \/ BootUserPost
    \/ BootPassword \/ BootUserRoleGet \/ BootUserRolePost

SpecBoot == InitBoot /\ [][NextBoot]_vars

(***************************************************************************)
(* Inputs and specifications                                               *)
(***************************************************************************)
BearerT == HeaderOf(<<"Bearer ", "T">>)

AdminToken ==
    [hdr |-> "ok", kid |-> "k1", alg |-> "RS256", sig |-> [alg |-> "RS256", key |-> "k1"],
     body |-> "ok", expKind |-> "int", exp |-> Now + 1, realm |-> AdminRealm]

DefaultBody ==
    [username |-> <<"b">>, email |-> "e1", firstName |-> "f1", password |-> "p1", roles |-> <<"r1">>,
     groups |-> <<"g1">>,
     user_id |-> 1, name |-> "g1"]

\* Authorization headers: none, empty, no scheme, another scheme, Bearer + JWT,
\* Bearer + other text, Bearer + a text that holds "Bearer " again
VerifyHeaders ==
    {NoHeader, HeaderOf(<<>>), HeaderOf(<<"T">>), HeaderOf(<<"x", "T">>), BearerT,
     HeaderOf(<<"Bearer ", "x">>), HeaderOf(<<"Bearer ", "Bearer ", "T">>)}

KeySets == {{}, {"k1"}, {"k1", "k2"}}

CreateBodies ==
    [username : {<<"b">>, <<"a", "b">>, <<"b", "c">>},
     email : {"e1", "e2"},
     firstName : {FirstName},
     password : {"p1", "p2"},
     roles : {<<>>, <<"ghost">>, <<"ghost", "", "r1">>},
     groups : {<<>>, <<"nogroup", "g2">>},
     user_id : {0},
     name : {""}]

\* verification and the realm-admin gate over every header and token shape
StartVerify(p) ==
    \E h \in VerifyHeaders, t \in Tokens :
        /\ (h # BearerT => t = AdminToken)
        /\ Start(p, h, t, "delete_user", NoBody)

InitVerify == InitProcs /\ InitRealm /\ jwks \in KeySets

NextVerify == \E p \in Solo : StartVerify(p) \/ Verify(p) \/ Gate(p) \/ Finish(p)

SpecVerify == InitVerify /\ [][NextVerify]_vars

\* every endpoint, with issued tokens of every claim shape and some rejected tokens
GateTokens ==
    IssuedTokens \cup {UnparsableToken, [AdminToken EXCEPT !.exp = 0], [AdminToken EXCEPT !.kid = "k2"],
                       [AdminToken EXCEPT !.sig = [alg |-> "RS256", key |-> "k2"]]}

StartGate(p) ==
    \E h \in {NoHeader, BearerT}, t \in GateTokens, e \in Endpoints :
        /\ (h # BearerT => t = AdminToken)
        /\ Start(p, h, t, e, DefaultBody)

InitGate == InitProcs /\ InitRealm /\ jwks = {"k1"}

NextGate ==
    \E p \in Solo :
        \/ StartGate(p) \/ Verify(p) \/ Gate(p) \/ FnToken(p) \/ FnCall(p) \/ AdminStep(p)
        \/ UpdateStep(p)
        \/ CreateUserStep(p) \/ Return(p) \/ Finish(p)

SpecGate == InitGate /\ [][NextGate]_vars

\* POST /users by a realm admin, over request bodies
StartCreate(p) == \E b \in CreateBodies : Start(p, BearerT, AdminToken, "create_user", b)

InitCreate == InitProcs /\ InitRealm /\ jwks = {"k1"}

NextCreate ==
    \E p \in Solo :
        \/ StartCreate(p) \/ Verify(p) \/ Gate(p)
        \/ CreateUserStep(p) \/ Return(p) \/ Finish(p)

SpecCreate == InitCreate /\ [][NextCreate]_vars

\* a realm that holds two users, the username of one inside that of the other
SeedUsers ==
    [i \in {1, 2} |->
        [username |-> IF i = 1 THEN <<"a", "b">> ELSE <<"b">>,
         email |-> IF i = 1 THEN "e1" ELSE "e2",
         firstName |-> FirstName,
         password |-> "p0", roles |-> {}, groups |-> {}]]

\* POST /users bodies: a username and email that exist, a new username with an
\* email that exists, a new username with a new email
AdminUserBodies ==
    {[DefaultBody EXCEPT !.username = <<"b">>, !.email = "e2", !.password = "p2", !.user_id = 0, !.name = ""],
     [DefaultBody EXCEPT !.username = <<"c">>, !.email = "e1", !.user_id = 0, !.name = ""],
     [DefaultBody EXCEPT !.username = <<"c">>, !.email = "e3", !.user_id = 0, !.name = ""]}

AdminEndpoints ==
    {"create_user", "delete_user", "create_role", "delete_role", "create_group", "delete_group"}

\* the parameters tried per endpoint: an entity that exists and one that does not
AdminInputs(e) ==
    CASE e = "create_user" -> AdminUserBodies
      [] e = "delete_user" -> {[NoBody EXCEPT !.user_id = i] : i \in {1, 9}}
      [] e \in {"create_role", "delete_role"} -> {[NoBody EXCEPT !.name = n] : n \in {"r1", "r3"}}
      [] e = "create_group" -> {[NoBody EXCEPT !.name = n] : n \in {"g1", "g3"}}
      [] e = "delete_group" -> {[NoBody EXCEPT !.name = n] : n \in {"gid1", "gid3"}}

\* requests of a realm admin that create and delete, two flows at a time
StartAdmin(p) ==
    \E e \in AdminEndpoints : \E b \in AdminInputs(e) : Start(p, BearerT, AdminToken, e, b)

InitAdmin ==
    /\ InitProcs
    /\ jwks = {"k1"}
    /\ users = SeedUsers
    /\ nextId = 3
    /\ realmRoles = {"r1", "r2"}
    /\ groups = {[id |-> "gid1", name |-> "g1"], [id |-> "gid2", name |-> "g2"]}
    /\ nextGid = 3
    /\ hist = <<>>
    /\ Bootstrapped

NextAdmin ==
    \E p \in Procs :
        \/ StartAdmin(p) \/ Verify(p) \/ Gate(p) \/ FnToken(p) \/ AdminStep(p)
        \/ CreateUserStep(p) \/ Return(p) \/ Finish(p)

SpecAdmin == InitAdmin /\ [][NextAdmin]_vars

\* a realm admin's token, and tokens that fail verification: not a JWT, expired,
\* signed by a key the authority does not publish, signature that does not match
CallTokens ==
    {AdminToken, UnparsableToken, [AdminToken EXCEPT !.exp = 0], [AdminToken EXCEPT !.kid = "k2"],
     [AdminToken EXCEPT !.sig = [alg |-> "RS256", key |-> "k2"]]}

\* every endpoint with the default parameters, called with and without a header
StartCalls(p) ==
    \E h \in {NoHeader, BearerT}, t \in CallTokens, e \in Endpoints :
        /\ (h # BearerT => t = AdminToken)
        /\ Start(p, h, t, e, DefaultBody)

InitCalls == InitProcs /\ InitRealm /\ jwks = {"k1"}

NextCalls ==
    \E p \in Solo :
        \/ StartCalls(p) \/ Verify(p) \/ Gate(p) \/ FnToken(p) \/ FnCall(p) \/ AdminStep(p)
        \/ UpdateStep(p)
        \/ CreateUserStep(p) \/ Return(p) \/ Finish(p)

SpecCalls == InitCalls /\ [][NextCalls]_vars

\* PUT /users/{id} bodies: only the email, only the first name, both
UpdateBodies ==
    {[NoBody EXCEPT !.user_id = 1, !.email = em, !.firstName = fi] :
        <<em, fi>> \in {<<"e9", None>>, <<None, "f9">>, <<"e8", "f8">>}}

\* PUT /users/1 by realm admins, two flows at a time
StartUpdate(p) == \E b \in UpdateBodies : Start(p, BearerT, AdminToken, "update_user", b)

NextUpdate ==
    \E p \in Procs :
        \/ StartUpdate(p) \/ Verify(p) \/ Gate(p) \/ FnToken(p) \/ UpdateStep(p)
        \/ Return(p) \/ Finish(p)

SpecUpdate == InitAdmin /\ [][NextUpdate]_vars

\* the same calls and POST /auth/refresh, every remote call able to fail
NextOutage == NextCalls \/ \E p \in Solo : RefreshStep(p)

SpecOutage == InitCalls /\ [][NextOutage]_vars

(***************************************************************************)
(* Properties                                                              *)
(***************************************************************************)
\* verify_bearer_token has run for the request of p
VerifyDone(p) == pc[p] \notin {"idle", "verify"}

\* the string handed to decode_token is the text of the request's JWT
Presented(p) ==
    /\ req[p].header.present
    /\ StartsWithBearer(req[p].header.text)
    /\ ReplaceBearer(req[p].header.text) = <<"T">>

\* require_superadmin has run on a verified payload
GateDone(p) ==
    /\ pc[p] \notin {"idle", "verify", "gate"}
    /\ Gated(req[p].endpoint)
    /\ auth[p].status = 200

\* require_superadmin returned without raising
Allowed(p) == resp[p].failed_at # "gate"

\* "realm-admin" is an element of the list under realm_access.roles
HasRealmAdmin(c) == c.ra = "obj" /\ c.roles = "list" /\ "realm-admin" \in Range(c.list)

\* the payload carries no role list: a key is absent or null
RoleSetAbsent(c) == c.ra \in {"absent", "null"} \/ c.roles \in {"absent", "null"}

\* the role set of the context is empty: an empty list, or a key absent
EmptyRoleSet(c) ==
    \/ c.ra = "absent"
    \/ c.ra = "obj" /\ c.roles = "absent"
    \/ c.ra = "obj" /\ c.roles = "list" /\ c.list = <<>>

\* calls to the admin surface (the admin-credential fetch included) the request issued
AdminCallsIssued(p) == Cardinality({i \in 1..Len(log[p]) : log[p][i] # "get_jwks"})

NoCalls(p, names) == \A i \in 1..Len(log[p]) : log[p][i] \notin names

\* C1: on every mutating endpoint a request whose verified token lacks the
\* realm-admin role is answered 403 and has issued no admin call, not even the
\* admin-credential fetch.
C1_LackingRoleIsForbidden ==
    \A p \in Procs :
        (GateDone(p) /\ req[p].endpoint \in MutatingEndpoints /\ ~HasRealmAdmin(auth[p].claims))
            => (resp[p].status = 403 /\ AdminCallsIssued(p) = 0)

\* Companion of C1, the part that holds: a mutating endpoint issues an admin
\* call only after verification succeeded and the gate found realm-admin.
GateBeforeAdminCalls ==
    \A p \in Procs :
        (req[p].endpoint \in MutatingEndpoints /\ AdminCallsIssued(p) > 0)
            => (auth[p].status = 200 /\ HasRealmAdmin(auth[p].claims))

\* C2: the gate allows if and only if "realm-admin" is, verbatim, an element of
\* realm_access.roles, and it denies (403) a context whose role set is empty.
C2_AllowedIffRealmAdminVerbatim ==
    \A p \in Procs :
        GateDone(p) =>
            /\ Allowed(p) <=> HasRealmAdmin(auth[p].claims)
            /\ EmptyRoleSet(auth[p].claims) => resp[p].status = 403

\* a near miss is denied: other case and a longer name, no exact element
C2_Witness ==
    \E p \in Procs :
        /\ GateDone(p)
        /\ auth[p].claims.list = <<"Realm-Admin", "realm-admin-x">>
        /\ resp[p].status = 403

\* C3: for every verified payload whose role set is absent (no realm_access, no
\* roles, or null in either place) the check denies with 403 and with no other error.
C3_AbsentRoleSetIsDenied ==
    \A p \in Procs :
        (GateDone(p) /\ RoleSetAbsent(auth[p].claims)) => resp[p].status = 403

\* Companion of C3, the part that holds: an absent role set never allows.
AbsentRoleSetNeverAllowed ==
    \A p \in Procs :
        (GateDone(p) /\ RoleSetAbsent(auth[p].claims)) => ~Allowed(p)

\* C4: a token whose key id is not in the authority's key set is rejected after
\* exactly one key-set fetch; when that fetch returned the key set the failure is
\* UnknownSigningKey, answered 401.
C4_UnknownKeyOneFetch ==
    \A p \in Procs :
        (VerifyDone(p) /\ Presented(p) /\ req[p].token.hdr = "ok"
            /\ req[p].token.kid \in Kids /\ req[p].token.kid \notin jwks)
        => /\ Count(log[p], "get_jwks") = 1
           /\ auth[p].status # 200
           /\ auth[p].kind # "HTTPError" => (auth[p].kind = "UnknownSigningKey" /\ resp[p].status = 401)

\* a correctly signed, unexpired token of a key the authority does not publish
C4_Witness ==
    \E p \in Procs :
        /\ VerifyDone(p) /\ Presented(p)
        /\ jwks = {"k1"}
        /\ req[p].token.kid = "k2"
        /\ req[p].token.sig = [alg |-> "RS256", key |-> "k2"]
        /\ req[p].token.alg = "RS256"
        /\ req[p].token.exp > Now
        /\ auth[p].kind = "UnknownSigningKey"
        /\ log[p] = <<"get_jwks">>

\* the token would verify but for its expiry
ValidButForExpiry(t, keys) ==
    /\ t.hdr = "ok" /\ t.kid \in keys /\ t.alg = jwt_algorithm
    /\ t.sig = [alg |-> t.alg, key |-> t.kid] /\ t.body = "ok"

C6_AlgorithmAllowList ==
    \A p \in Procs :
        LET t == req[p].token IN
        /\ auth[p].algUsed \in {"", jwt_algorithm}
        /\ (VerifyDone(p) /\ Presented(p) /\ t.hdr = "ok" /\ t.alg # jwt_algorithm)
           => /\ auth[p].status # 200
              /\ auth[p].algUsed = ""
              /\ resp[p].status \in {401, 500}
              /\ (t.kid \in jwks /\ auth[p].kind # "HTTPError")
                 => (auth[p].kind = "AlgNotAllowed" /\ resp[p].status = 401)

\* an RS512 token signed by the published key k1 is rejected
C6_Witness ==
    \E p \in Procs :
        LET t == req[p].token IN
        /\ VerifyDone(p) /\ Presented(p)
        /\ t.alg = "RS512" /\ t.kid = "k1" /\ t.sig = [alg |-> "RS512", key |-> "k1"]
        /\ t.body = "ok" /\ t.exp > Now
        /\ "k1" \in jwks
        /\ auth[p].kind = "AlgNotAllowed"
        /\ resp[p].status = 401

\* C7: every verification failure (the key set having been fetched where a
\* fetch is made) ends in 401 and yields no identity context.
C7_VerificationFailureIs401 ==
    \A p \in Procs :
        (VerifyDone(p) /\ auth[p].status # 200 /\ auth[p].kind # "HTTPError")
            => (resp[p].status = 401 /\ auth[p].claims = NoClaims)

\* Companion of C7, the part that holds: no failed verification yields a context.
FailedVerificationYieldsNoContext ==
    \A p \in Procs :
        (VerifyDone(p) /\ auth[p].status # 200)
            => (auth[p].claims = NoClaims /\ pc[p] \in {"done", "idle"} /\ resp[p].status \in {401, 500})

\* C8: of two consecutive keycloak_admin.create_user calls with the same input,
\* the first having returned an id, the second (every request of it answered)
\* meets a conflict and returns the same id; no two users share a username.
C8_CreateUserIdempotent ==
    /\ \A i \in 1..(Len(hist) - 1) :
        LET a == hist[i]
            b == hist[i + 1]
        IN (a.username = b.username /\ a.email = b.email /\ a.id # 0 /\ ~b.fault)
            => (b.post = 409 /\ b.id = a.id)
    /\ \A i, j \in DOMAIN users : users[i].username = users[j].username => i = j

\* the second call met the conflict and returned the id the first created
C8_Witness ==
    /\ Len(hist) = 2
    /\ hist[1].username = hist[2].username /\ hist[1].email = hist[2].email
    /\ hist[1].post = 201 /\ hist[2].post = 409
    /\ hist[1].id # 0 /\ hist[2].id = hist[1].id
    /\ Cardinality(DOMAIN users) = 1

RoleGroupCalls == {"get_role", "post_role_mappings", "get_groups", "put_group"}

\* C9: when the password step of POST /users fails the request ends 500 without
\* a user id and no role lookup, role mapping, group listing or membership call
\* follows; when the creation step fails no password call is issued either.
C9_PasswordFailureStopsOrchestration ==
    \A p \in Procs :
        /\ resp[p].failed_at \in {"pw_token", "pw_put"}
           => /\ resp[p].status = 500 /\ resp[p].user_id = 0
              /\ pc[p] \in {"done", "idle"}
              /\ NoCalls(p, RoleGroupCalls)
              /\ Count(log[p], "admin_token") = 2
              /\ Count(log[p], "put_password") = (IF resp[p].failed_at = "pw_put" THEN 1 ELSE 0)
        /\ resp[p].failed_at \in {"cu_token", "cu_post", "cu_get"}
           => /\ resp[p].status = 500 /\ resp[p].user_id = 0
              /\ pc[p] \in {"done", "idle"}
              /\ NoCalls(p, RoleGroupCalls \cup {"put_password"})
              /\ Count(log[p], "admin_token") = 1

\* the password call failed for a request that asked for roles and groups
C9_Witness ==
    \E p \in Procs :
        /\ pc[p] = "done"
        /\ resp[p].failed_at = "pw_put"
        /\ req[p].body.roles = <<"ghost", "", "r1">>
        /\ req[p].body.groups # <<>>
        /\ log[p][Len(log[p])] = "put_password"

\* C10: when the role step of POST /users fails (its credential fetch or the
\* role-mapping call) the request still answers 201 with the user id.
C10_RoleFailureStillSucceeds ==
    \A p \in Procs :
        resp[p].failed_at \in {"ar_token", "ar_post"}
            => (resp[p].status = 201 /\ resp[p].user_id = loc[p].user_id /\ resp[p].user_id # 0)

\* Companion of C10, the part that holds: after a failed role step the user
\* exists and carries the requested password.
RoleFailureKeepsPassword ==
    \A p \in Procs :
        resp[p].failed_at \in {"ar_token", "ar_post"}
            => /\ loc[p].user_id \in DOMAIN users
               /\ users[loc[p].user_id].password = req[p].body.password

\* the steps of POST /users that follow set_user_password
RoleGroupSteps == {"ar_token", "ar_post", "lg_token", "lg_get", "ag_token", "ag_put"}

\* C11: when the role or the group step of POST /users fails after step 1
\* created the user, that user (the one carrying the requested username) still
\* exists with the password of the request, and no delete call was issued.
C11_FailureKeepsCreatedUserAndPassword ==
    \A p \in Procs :
        (resp[p].failed_at \in RoleGroupSteps /\ loc[p].post = 201)
            => /\ \E i \in DOMAIN users :
                    /\ users[i].username = req[p].body.username
                    /\ users[i].password = req[p].body.password
               /\ NoCalls(p, {"delete_user"})

\* Companion of C11, the part that holds: nothing is rolled back. After a failed
\* role or group step the user whose id step 1 returned exists with the password
\* of the request, and the request issued no delete call.
NoRollbackAfterLateFailure ==
    \A p \in Procs :
        resp[p].failed_at \in RoleGroupSteps
            => /\ resp[p].status = 500
               /\ loc[p].user_id \in DOMAIN users
               /\ users[loc[p].user_id].password = req[p].body.password
               /\ NoCalls(p, {"delete_user"})

\* the calls of s before the first occurrence of x (all of s when x is absent)
RECURSIVE Before(_, _)
Before(s, x) ==
    IF s = <<>> \/ Head(s) = x THEN <<>>
    ELSE <<Head(s)>> \o Before(Tail(s), x)

Occurs(s, x) == \E i \in 1..Len(s) : s[i] = x

\* C12: POST /users issues its calls in the order create, password, roles,
\* groups: the password call follows the lookup that produced the user id, no
\* role call precedes the password call, and the group listing is fetched only
\* after the role step (its credential fetch included) when roles were requested.
C12_FixedStepOrder ==
    \A p \in Procs :
        LET l == log[p]
            roleCalls == {"get_role", "post_role_mappings"}
            groupCalls == {"get_groups", "put_group"}
        IN
        /\ Occurs(l, "put_password")
            => /\ Occurs(Before(l, "put_password"), "get_users")
               /\ Occurs(Before(l, "put_password"), "post_user")
               /\ loc[p].user_id # 0
               /\ \A x \in roleCalls \cup groupCalls : ~Occurs(Before(l, "put_password"), x)
        /\ \A x \in roleCalls \cup groupCalls : Occurs(l, x) => Occurs(Before(l, x), "put_password")
        /\ Occurs(l, "get_groups")
            => /\ Count(Before(l, "get_groups"), "admin_token")
                    = (IF req[p].body.roles # <<>> THEN 4 ELSE 3)
               /\ \A i \in 1..Len(l) : l[i] \in roleCalls => Occurs(SubSeq(l, i + 1, Len(l)), "get_groups")
        /\ Occurs(l, "put_group") => Occurs(Before(l, "put_group"), "get_groups")

\* a request asking for roles and groups went through all four steps in order
C12_Witness ==
    \E p \in Procs :
        /\ pc[p] = "return"
        /\ log[p] = <<"get_jwks", "admin_token", "post_user", "get_users", "admin_token", "put_password",
                      "admin_token", "get_role", "get_role", "post_role_mappings",
                      "admin_token", "get_groups", "admin_token", "put_group">>

\* none of the requested role names is a role of the realm
AllUnresolvable(names) == names # <<>> /\ \A i \in 1..Len(names) : names[i] \notin realmRoles

\* C14: a POST /users whose role names all fail to resolve issues no role-mapping
\* call and the role step raises nothing, so with every other call answered the
\* request ends 201 with the user id; no user ever holds a role the realm lacks.
C14_GhostRolesCreateNoMapping ==
    /\ \A p \in Procs :
        (pc[p] # "idle" /\ AllUnresolvable(req[p].body.roles))
            => /\ NoCalls(p, {"post_role_mappings"})
               /\ resp[p].failed_at \notin {"ar_get", "ar_post"}
               /\ (pc[p] = "done" /\ resp[p].failed_at = "")
                    => /\ resp[p].status = 201
                       /\ resp[p].user_id # 0
                       /\ resp[p].user_id = loc[p].user_id
    /\ \A i \in DOMAIN users : users[i].roles \subseteq realmRoles

\* roles = ["ghost"], groups = []: 201 with the id of a user that holds no role
C14_Witness ==
    \E p \in Procs :
        /\ pc[p] = "done"
        /\ req[p].body.roles = <<"ghost">> /\ req[p].body.groups = <<>>
        /\ resp[p].status = 201
        /\ resp[p].user_id \in DOMAIN users
        /\ users[resp[p].user_id].roles = {}
        /\ log[p][Len(log[p])] = "get_role"

\* the role-mapping call of the request was sent and accepted
RolesAssigned(p) == Occurs(log[p], "post_role_mappings") /\ resp[p].failed_at # "ar_post"

\* the roles user i holds, none before the user exists
RolesHeld(us, i) == IF i \in DOMAIN us THEN us[i].roles ELSE {}

\* C15: assign_roles_to_user never aborts on a name that does not resolve; the
\* names it collected are requested names of existing roles; after the mapping
\* call succeeded the user holds every collected role; and a step gives a user
\* only roles that the request sending the mapping call asked for.
C15_BestEffortRoleBatch ==
    /\ [](\A p \in Procs :
            /\ resp[p].failed_at # "ar_get"
            /\ Range(loc[p].found) \subseteq (Range(req[p].body.roles) \cap realmRoles)
            /\ RolesAssigned(p) => /\ loc[p].found # <<>>
                                   /\ Range(loc[p].found) \subseteq users[loc[p].user_id].roles)
    /\ [][\A i \in DOMAIN users' :
            (RolesHeld(users', i) \ RolesHeld(users, i))
                \subseteq UNION {Range(req[p].body.roles) : p \in {q \in Procs : pc[q] = "ar_post"}}]_vars

\* the batch ["ghost", "", "r1"]: two lookups, one mapping call, the user holds r1
C15_Witness ==
    \E p \in Procs :
        /\ req[p].body.roles = <<"ghost", "", "r1">>
        /\ RolesAssigned(p)
        /\ Count(log[p], "get_role") = 2
        /\ loc[p].found = <<"r1">>
        /\ users[loc[p].user_id].roles = {"r1"}

\* the ids of the listed groups whose name the request asks for
MatchedIds(p) == {g.id : g \in {h \in loc[p].group_map : h.name \in Range(req[p].body.groups)}}

GroupsHeld(us, i) == IF i \in DOMAIN us THEN us[i].groups ELSE {}

\* C16: POST /users sends one membership call per requested name found in the
\* listing it fetched and none for the other names, which raise no error; when
\* the handler returns the user is a member of every matched group; and a step
\* adds a user only to groups whose name the acting request asked for.
C16_GroupsByListedName ==
    /\ [](\A p \in Procs :
            LET names == req[p].body.groups
                matched == {i \in 1..Len(names) : \E g \in loc[p].group_map : g.name = names[i]}
            IN
            /\ Count(log[p], "put_group") <= Cardinality(matched)
            /\ (pc[p] = "return" /\ names # <<>>)
                => /\ Count(log[p], "put_group") = Cardinality(matched)
                   /\ loc[p].group_map = groups
                   /\ MatchedIds(p) \subseteq users[loc[p].user_id].groups)
    /\ [][\A i \in DOMAIN users' :
            (GroupsHeld(users', i) \ GroupsHeld(users, i))
                \subseteq UNION {MatchedIds(p) : p \in {q \in Procs : pc[q] = "ag_put"}}]_vars

\* groups = ["nogroup", "g2"]: one membership call, the user is in g2 only
C16_Witness ==
    \E p \in Procs :
        /\ pc[p] = "return"
        /\ req[p].body.groups = <<"nogroup", "g2">>
        /\ Count(log[p], "put_group") = 1
        /\ users[loc[p].user_id].groups = {"gid2"}

\* C13: POST /users always runs the password step once it holds a user id, and
\* after a successful request for a username that existed before (the create
\* answered 409) the user of that username has the password of the request.
C13_ExistingUserGetsRequestPassword ==
    \A p \in Procs :
        LET b == req[p].body IN
        (req[p].endpoint = "create_user" /\ pc[p] = "done" /\ resp[p].status = 201)
            => /\ Occurs(log[p], "put_password")
               /\ (loc[p].post = 409 /\ \E i \in DOMAIN users : users[i].username = b.username)
                    => \E i \in DOMAIN users :
                          users[i].username = b.username /\ users[i].password = b.password

\* Companion of C13, the part that holds: a POST /users that went past the
\* password step has sent the password call for the id create_user returned,
\* also after a 409.
PasswordStepAlwaysRuns ==
    \A p \in Procs :
        (req[p].endpoint = "create_user"
            /\ (pc[p] \in {"ar_token", "ar_get", "ar_post", "lg_token", "lg_get", "ag_token", "ag_put", "return"}
                \/ (pc[p] = "done" /\ resp[p].status = 201)))
            => /\ loc[p].user_id # 0
               /\ Count(log[p], "put_password") = 1
               /\ Occurs(Before(log[p], "put_password"), "get_users")

DeleteEndpoints == {"delete_user", "delete_role", "delete_group"}

\* the entity a delete request names is not in the realm
TargetAbsent(e, b, us, rs, gs) ==
    CASE e = "delete_user" -> b.user_id \notin DOMAIN us
      [] e = "delete_role" -> b.name \notin rs
      [] e = "delete_group" -> ~\E g \in gs : g.id = b.name
      [] OTHER -> FALSE

\* in this step the authority answered the delete request of p
DeleteAnswered(p) ==
    /\ pc[p] \in {"du_delete", "dr_delete", "dg_delete"}
    /\ pc'[p] # pc[p]
    /\ loc'[p].post # 0

\* C17: a delete that the authority answers returns normally, 204 to the caller,
\* and leaves its target absent; when the target was absent already (the answer
\* is 404) the realm is unchanged, so a second delete ends where the first did.
C17_DeleteOfAbsentIsNoOp ==
    /\ [][\A p \in Procs :
            DeleteAnswered(p)
                => /\ pc'[p] = "return"
                   /\ TargetAbsent(req[p].endpoint, req[p].body, users', realmRoles', groups')
                   /\ TargetAbsent(req[p].endpoint, req[p].body, users, realmRoles, groups)
                        => (loc'[p].post = 404 /\ UNCHANGED remote)]_vars
    /\ [](\A p \in Procs :
            (req[p].endpoint \in DeleteEndpoints /\ pc[p] = "done" /\ loc[p].post # 0)
                => resp[p].status = 204)

\* user 1, deleted before, is deleted again: 404 from the authority, normal return
C17_Witness ==
    \E p \in Procs :
        /\ req[p].endpoint = "delete_user" /\ req[p].body.user_id = 1
        /\ pc[p] = "done"
        /\ loc[p].post = 404
        /\ resp[p].status = 204
        /\ nreq = 2
        /\ DOMAIN users = {2}

\* in this step the authority answered the create request of p
CreateAnswered(p, at) == pc[p] = at /\ pc'[p] # pc[p] /\ loc'[p].post # 0

\* C18: create_realm_role and create_group go on normally after a 409, which
\* leaves the realm unchanged; no two groups share a name; and the id
\* create_group returns is that of the group carrying exactly the requested
\* name, hence the same id for as long as that group exists.
C18_CreateOfExistingIsSuccess ==
    /\ [](\A g, h \in groups : (g.name = h.name \/ g.id = h.id) => g = h)
    /\ [][\A p \in Procs :
            LET name == req[p].body.name IN
            /\ CreateAnswered(p, "cr_post")
                => /\ pc'[p] = "return"
                   /\ name \in realmRoles'
                   /\ name \in realmRoles => (loc'[p].post = 409 /\ UNCHANGED remote)
            /\ CreateAnswered(p, "cg_post")
                => /\ pc'[p] = "cg_get"
                   /\ \E g \in groups' : g.name = name
                   /\ (\E g \in groups : g.name = name) => (loc'[p].post = 409 /\ UNCHANGED remote)
            /\ (pc[p] = "cg_get" /\ pc'[p] = "return")
                => /\ [id |-> loc'[p].group_id, name |-> name] \in groups
                   /\ UNCHANGED remote]_vars
    /\ [](\A p \in Procs :
            (req[p].endpoint \in {"create_role", "create_group"} /\ pc[p] = "done" /\ resp[p].failed_at = "")
                => /\ resp[p].status = 201
                   /\ req[p].endpoint = "create_group" => resp[p].group_id = loc[p].group_id)

\* POST /groups for the existing name g1: 409, then the id of the existing group
C18_Witness ==
    \E p \in Procs :
        /\ req[p].endpoint = "create_group" /\ req[p].body.name = "g1"
        /\ pc[p] = "done"
        /\ loc[p].post = 409
        /\ resp[p].status = 201
        /\ resp[p].group_id = "gid1"
        /\ {g \in groups : g.name = "g1"} = {[id |-> "gid1", name |-> "g1"]}

\* C19: when the lookup after a create attempt is answered and finds nothing
\* (no user for the username, no group of the name) the function raises: the
\* request ends 500 at once without an id, and the lookup is its last call.
C19_NotFoundAfterCreateFails ==
    /\ [][\A p \in Procs :
            /\ (pc[p] = "cu_get" /\ pc'[p] # pc[p] /\ SearchUsers(users, req[p].body.username) = <<>>)
                => (pc'[p] = "done" /\ loc'[p].user_id = 0 /\ UNCHANGED remote)
            /\ (pc[p] = "cg_get" /\ pc'[p] # pc[p] /\ ~\E g \in groups : g.name = req[p].body.name)
                => (pc'[p] = "done" /\ loc'[p].group_id = "" /\ UNCHANGED remote)]_vars
    /\ [](\A p \in Procs :
            /\ resp[p].failed_at = "cu_get"
                => /\ resp[p].status = 500 /\ resp[p].user_id = 0 /\ pc[p] = "done"
                   /\ log[p][Len(log[p])] = "get_users"
            /\ resp[p].failed_at = "cg_get"
                => /\ resp[p].status = 500 /\ resp[p].group_id = "" /\ pc[p] = "done"
                   /\ log[p][Len(log[p])] = "get_groups")

\* create_group created the group, another flow deleted it, and the listing
\* create_group then fetched holds no group of the name
C19_Witness ==
    \E p \in Procs :
        /\ req[p].endpoint = "create_group"
        /\ resp[p].failed_at = "cg_get"
        /\ loc[p].post = 201
        /\ loc[p].group_map # {}
        /\ ~\E g \in loc[p].group_map : g.name = req[p].body.name
        /\ resp[p].status = 500

\* the segments that fetch the admin credential
TokenSteps == {"fn_token", "cu_token", "pw_token", "ar_token", "lg_token", "ag_token"}

\* the requests a function sends after another request, under the same credential
Continuations ==
    {<<"post_user", "get_users">>, <<"get_role", "get_role">>, <<"get_role", "post_role_mappings">>,
     <<"post_group", "get_groups">>}

\* C20: every request to the admin surface follows a credential fetch of its
\* function, directly or after another request of that function; and a failed
\* credential fetch ends the request with the handler's error status, the
\* fetch being its last outbound call.
C20_CredentialFirstAndFatal ==
    \A p \in Procs :
        LET l == log[p] IN
        /\ \A i \in 1..Len(l) :
            l[i] \notin {"get_jwks", "admin_token"}
                => /\ i > 1
                   /\ l[i - 1] = "admin_token" \/ <<l[i - 1], l[i]>> \in Continuations
        /\ resp[p].failed_at \in TokenSteps
            => /\ l[Len(l)] = "admin_token"
               /\ pc[p] = "done"
               /\ resp[p].status = ErrorStatus(req[p].endpoint)
               /\ resp[p].user_id = 0 /\ resp[p].group_id = ""

\* PUT /users/{id}/password: the credential fetch of set_user_password failed
\* and no request followed
C20_Witness ==
    \E p \in Procs :
        /\ req[p].endpoint = "reset_password"
        /\ resp[p].failed_at = "fn_token"
        /\ log[p] = <<"get_jwks", "admin_token">>
        /\ resp[p].status = 500

(***************************************************************************)
(* Failures of the remote authority                                        *)
(***************************************************************************)
\* the segments that end in a request to the authority
RemoteSteps ==
    TokenSteps \cup {"fn_call", "du_delete", "cr_post", "dr_delete", "cg_post", "cg_get", "dg_delete",
                     "gu_get", "uu_put",
                     "rf_post", "rf_decode"}

\* the request of p ended because a call to the authority failed: the key-set
\* fetch, the token endpoint, or a call to the admin surface
RemoteCallFailed(p) ==
    /\ pc[p] = "done"
    /\ \/ resp[p].failed_at = "verify" /\ auth[p].kind = "HTTPError"
       \/ resp[p].failed_at \in RemoteSteps

\* C21: a request that ended because a call to the remote authority failed
\* (token endpoint, key-set endpoint or admin surface) is answered with a
\* server-side unavailable status, never with 401, 403 or 404.
C21_RemoteFailureIsUnavailable ==
    \A p \in Procs :
        RemoteCallFailed(p) => resp[p].status >= 500 /\ resp[p].status \notin {401, 403, 404}

\* the failed call is the last one the request issued: nothing is retried
FailedCallIsLast ==
    [][\A p \in Procs : RemoteCallFailed(p) => (log'[p] = log[p] \/ pc'[p] = "idle")]_vars

\* C22: the key set is fetched only when a token's key id is not among the
\* keys fetched before: verifying a well-formed token whose key id an earlier
\* fetch returned issues no key-set fetch.
C22_CachedKeyNeedsNoFetch ==
    [][\A p \in Procs :
        (/\ pc[p] = "verify" /\ pc'[p] # "verify"
         /\ Presented(p)
         /\ req[p].token.hdr = "ok"
         /\ req[p].token.kid \in fetched)
            => log'[p] = log[p]]_vars

(***************************************************************************)
(* The scheme prefix                                                       *)
(***************************************************************************)
\* C23: for a header "Bearer " + t the outcome of verify_bearer_token is the
\* outcome of decode_token on t, the header without its first chunk, also
\* when t holds "Bearer " again.
C23_PrefixStrippedOnce ==
    \A p \in Procs :
        LET h == req[p].header IN
        (VerifyDone(p) /\ h.present /\ StartsWithBearer(h.text))
            => auth[p] = DecodeToken(Tail(h.text), req[p].token, jwks, auth[p].kind # "HTTPError")

\* an absent header, an empty one and one that does not start with "Bearer "
\* are rejected with 401 before any key-set fetch
HeaderWithoutSchemeIsRejected ==
    \A p \in Procs :
        LET h == req[p].header IN
        (VerifyDone(p) /\ (~h.present \/ ~StartsWithBearer(h.text)))
            => auth[p].status = 401 /\ auth[p].fetches = 0 /\ resp[p].status = 401

(***************************************************************************)
(* Verification before the admin surface                                   *)
(***************************************************************************)
\* C24: a request whose token failed verification has issued no call to the
\* admin surface, the admin-credential fetch included, on read endpoints as on
\* mutating ones; the request ends with the status of the verification.
C24_NoAdminCallWithoutVerification ==
    \A p \in Procs :
        /\ AdminCallsIssued(p) > 0 => auth[p].status = 200
        /\ (VerifyDone(p) /\ auth[p].status # 200)
            => /\ pc[p] = "done"
               /\ resp[p].status = auth[p].status
               /\ NoCalls(p, {"admin_token"})

\* GET /users with an expired token: 401 after the key-set fetch alone
C24_Witness ==
    \E p \in Procs :
        /\ req[p].endpoint = "list_users"
        /\ req[p].token = [AdminToken EXCEPT !.exp = 0]
        /\ resp[p].status = 401
        /\ log[p] = <<"get_jwks">>

(***************************************************************************)
(* The id keycloak_admin.create_user returns                               *)
(***************************************************************************)
\* C25: every id keycloak_admin.create_user returned is the id of the user
\* whose username is the requested username.
C25_ReturnedIdIsOfRequestedUsername ==
    \A i \in 1..Len(hist) :
        hist[i].id # 0
            => /\ hist[i].id \in DOMAIN users
               /\ users[hist[i].id].username = hist[i].username

\* the returned id is the first of the authority's search, whatever it matched
ReturnedIdIsFirstMatch ==
    [][\A p \in Procs :
        (pc[p] = "cu_get" /\ pc'[p] = "pw_token")
            => /\ Contains(users[loc'[p].user_id].username, req[p].body.username)
               /\ \A j \in DOMAIN users :
                    Contains(users[j].username, req[p].body.username)
                        => ~LexLess(users[j].username, users[loc'[p].user_id].username)]_vars

(***************************************************************************)
(* Concurrent POST /users for one username                                 *)
(***************************************************************************)
\* the requests of p and q are POST /users for the same username and both
\* have been answered 201
BothCreated(p, q) ==
    /\ p # q
    /\ pc[p] = "done" /\ pc[q] = "done"
    /\ req[p].endpoint = "create_user" /\ req[q].endpoint = "create_user"
    /\ req[p].body.username = req[q].body.username
    /\ resp[p].status = 201 /\ resp[q].status = 201

\* both answers carry the same id, and the realm holds one user of the
\* username, its password being one of the two requested
Converged(p, q) ==
    LET named == {i \in DOMAIN users : users[i].username = req[p].body.username} IN
    /\ resp[p].user_id = resp[q].user_id
    /\ Cardinality(named) = 1
    /\ \A i \in named : users[i].password \in {req[p].body.password, req[q].body.password}

\* C26: two concurrent POST /users requests for the same username that both
\* succeed return the same user id and leave exactly one user of that
\* username, whose password is one of the two requested passwords.
C26_ConcurrentCreatesConverge ==
    \A p, q \in Procs : BothCreated(p, q) => Converged(p, q)

\* the same, where no other username in the realm contains the requested one
ConvergeWhereSearchIsExact ==
    \A p, q \in Procs :
        (/\ BothCreated(p, q)
         /\ \A i \in DOMAIN users :
              Contains(users[i].username, req[p].body.username)
                  => users[i].username = req[p].body.username)
            => Converged(p, q)

(***************************************************************************)
(* PUT /users/{id}                                                         *)
(***************************************************************************)
\* the requests of p and q are PUT /users/{id} for the same user, both answered
\* 200; p provides only the email, q only the first name
DisjointUpdates(p, q) ==
    /\ p # q
    /\ pc[p] = "done" /\ pc[q] = "done"
    /\ req[p].endpoint = "update_user" /\ req[q].endpoint = "update_user"
    /\ req[p].body.user_id = req[q].body.user_id
    /\ resp[p].status = 200 /\ resp[q].status = 200
    /\ req[p].body.email # None /\ req[p].body.firstName = None
    /\ req[q].body.email = None /\ req[q].body.firstName # None

\* C27: after two concurrent PUT /users/{id} requests that provide disjoint
\* fields and both succeed, the user's record carries both changes.
C27_DisjointUpdatesBothKept ==
    \A p, q \in Procs :
        DisjointUpdates(p, q)
            => /\ users[req[p].body.user_id].email = req[p].body.email
               /\ users[req[p].body.user_id].firstName = req[q].body.firstName

\* the put writes the record the request read with its provided fields set,
\* and leaves password, roles and groups as they are
PutWritesRecordRead ==
    [][\A p \in Procs :
        (pc[p] = "uu_put" /\ pc'[p] = "return")
            => LET id == req[p].body.user_id IN
               /\ users'[id].email = loc[p].current_user.email
               /\ users'[id].firstName = loc[p].current_user.firstName
               /\ req[p].body.email # None => users'[id].email = req[p].body.email
               /\ req[p].body.firstName # None => users'[id].firstName = req[p].body.firstName
               /\ users'[id].password = users[id].password
               /\ users'[id].roles = users[id].roles
               /\ users'[id].groups = users[id].groups
               /\ \A j \in DOMAIN users \ {id} : users'[j] = users[j]]_vars

(***************************************************************************)
(* The bootstrap script                                                    *)
(***************************************************************************)
\* what the authority holds
Authority == <<realm, client, realmRoles, groups, nextGid, users, nextId>>

\* a run of the script after a run that completed with every request answered
\* normally
Rerun == boot.settled_at # 0 /\ boot.run > boot.settled_at

\* C28: once a run of the bootstrap script has completed with every request
\* answered normally, a later run changes nothing at the authority (no realm,
\* client, role, group or user is added; ids, passwords and role mappings of
\* the users stay), and it does not fail while its requests are answered
\* normally.
C28_BootstrapIsIdempotent ==
    /\ [](Rerun /\ boot.clean => boot.pc # "failed")
    /\ [][boot'.settled_at # 0 /\ boot'.run > boot'.settled_at => UNCHANGED Authority]_vars

\* the second run has completed after a first run that created everything
C28_Witness ==
    /\ boot.settled_at = 1
    /\ boot.run = 2
    /\ boot.pc = "done"
    /\ boot.clean
    /\ realm /\ client
    /\ realmRoles = Range(BootRoles)
    /\ {g.name : g \in groups} = Range(BootGroups)
    /\ Cardinality(groups) = 3
    /\ DOMAIN users = {1, 2}
    /\ \A i \in {1, 2} :
        /\ users[i].username = BootUsers[i].username
        /\ users[i].password = BootUsers[i].password
        /\ users[i].roles = Range(BootUsers[i].roles)

====
